---- MODULE Spec2Model ----
(***************************************************************************)
(* Nexus-news: the ingestion-and-caching pipeline of news-nexus-node-api.  *)
(*                                                                         *)
(* NewsFetchScheduler (services/newsFetchScheduler.service.js) pulls from  *)
(* two upstream clients, normalizes, and upserts into the News collection  *)
(* (db/models/News.model.js); UnifiedNewsService serves reads from it.     *)
(***************************************************************************)
EXTENDS Integers, Sequences, FiniteSets, TLC

VARIABLES
    store,          \* the news_articles collection: a set of documents
    now,            \* the instant of the latest write (Date.now() then)
    enabled,        \* SCHEDULER_CONFIG.enabled (read from the environment)
    isRunning,      \* NewsFetchScheduler.isRunning
    scheduledJobs,  \* NewsFetchScheduler.scheduledJobs: sequence of [id, name]
    armed,          \* cron jobs that are armed (created and not stopped)
    bootChecks,     \* checkAndFetchInitialData calls awaiting countDocuments
    bootTimeouts,   \* pending 3 s settle timeouts of the bootstrap
    execs,          \* running executeScheduledFetch calls, by execution id
    started,        \* number of slot executions begun so far
    fetchStats,     \* NewsFetchScheduler.fetchStats
    lastFetchTimes, \* NewsFetchScheduler.lastFetchTimes
    upstreamCalls,  \* HTTP calls issued so far, per upstream client
    pages,          \* non-empty upstream responses served so far
    reply,          \* the answer of the last request / API call
    lastDone,       \* summary of the slot execution that finished last
    normOut,        \* output of the normalizers (normalizer specification)
    connection      \* DatabaseConnection and mongoose.connection with the
                    \* connect() calls under way and the microtask queue

vars == <<store, now, enabled, isRunning, scheduledJobs, armed, bootChecks,
          bootTimeouts, execs, started, fetchStats, lastFetchTimes,
          upstreamCalls, pages, reply, lastDone, normOut, connection>>

-----------------------------------------------------------------------------
(* Bounds of the model *)

MaxExecs == 2
MaxRuns == 2
MaxPages == 2
MaxStarts == 2
MaxBatch == 2
MaxCalls == 4
MaxAttempts == 3

-----------------------------------------------------------------------------
(* DatabaseConnection.connect (db/connection.js) *)

\* connect() calls of the model
CallIds == 1..MaxCalls

\* this.connectingPromise = null; a promise is named by the number of the
\* mongoose.connect call that returned it
NoPromise == 0

NotCalled == [pc |-> "idle", on |-> NoPromise]

\* the constructor of DatabaseConnection and a mongoose that has not connected:
\* readyState 0 = disconnected, 1 = connected, 2 = connecting
NotConnected ==
    [readyState        |-> 0,
     connectingPromise |-> NoPromise,
     attempts          |-> <<>>,
     waiters           |-> <<>>,
     calls             |-> [c \in CallIds |-> NotCalled],
     microtasks        |-> <<>>]

\* mongoose.connect(uri, options): the connection goes to `connecting` before
\* the call returns its promise; every call is counted as an attempt
mongooseConnect(conn) ==
    [conn EXCEPT !.readyState = 2,
                 !.attempts   = Append(@, "pending"),
                 !.waiters    = Append(@, <<>>)]

\* `await promise` in call c: the continuation is registered on the promise
Await(conn, c, promise, pc) ==
    [conn EXCEPT !.calls[c]         = [pc |-> pc, on |-> promise],
                 !.waiters[promise] = Append(@, c)]

\* a slip: connect() without the check for a connection in progress
EnterWithoutLock(conn, c) ==
    IF conn.readyState = 1
    THEN [conn EXCEPT !.calls[c] = [pc |-> "returned", on |-> NoPromise]]
    ELSE LET opened == mongooseConnect(conn)
             p      == Len(opened.attempts)
         IN  Await([opened EXCEPT !.connectingPromise = p], c, p, "connecting")

\* connect() of call c up to its first await or its return
Enter(conn, c) ==
    IF conn.readyState = 1
    THEN [conn EXCEPT !.calls[c] = [pc |-> "returned", on |-> NoPromise]]
    ELSE IF conn.readyState = 2 /\ conn.connectingPromise # NoPromise
    THEN Await(conn, c, conn.connectingPromise, "waiting")
    ELSE LET opened == mongooseConnect(conn)
             p      == Len(opened.attempts)
         IN  Await([opened EXCEPT !.connectingPromise = p], c, p, "connecting")

\* the call that comes next, and whether the model has room for it
NextCall(conn) == CHOOSE c \in CallIds :
                      /\ conn.calls[c].pc = "idle"
                      /\ \A b \in CallIds : b < c => conn.calls[b].pc # "idle"

HasRoom(conn) ==
    /\ \E c \in CallIds : conn.calls[c].pc = "idle"
    /\ Len(conn.attempts) < MaxAttempts

-----------------------------------------------------------------------------
(* JavaScript values *)

\* undefined (an absent JSON field); a template literal prints it "undefined"
Undefined == "undefined"
Null == "null"

\* a Date object; an unparseable string gives Invalid Date
InvalidDate == [valid |-> FALSE, time |-> 0]

\* JS truthiness of a string-or-undefined value, as used by `a || b`
Truthy(v) == v # Undefined /\ v # Null /\ v # ""

Or(a, b) == IF Truthy(a) THEN a ELSE b

\* new Date(s): the date strings of the model and the instants they denote
DateStrings == [d1 |-> 1, d2 |-> 2]

NewDate(s) ==
    IF s \in DOMAIN DateStrings
    THEN [valid |-> TRUE, time |-> DateStrings[s]]
    ELSE InvalidDate

-----------------------------------------------------------------------------
(* config/fetchSchedule.config.js *)

ND(cat, co) == [category |-> cat, country |-> co, language |-> "en"]
NA(co, cat) == [country |-> co, category |-> cat, pageSize |-> 100]

FETCH_SCHEDULE ==
    [EARLY_MORNING |->
        [newsDataConfig |-> <<ND("top", "in"), ND("breaking", "in"),
                              ND("top", "us"), ND("breaking", "us"),
                              ND("world", Undefined)>>,
         newsApiConfig  |-> <<NA("in", Undefined), NA("us", Undefined)>>],
     MORNING |->
        [newsDataConfig |-> <<ND("business", "in"), ND("technology", "in"),
                              ND("business", "us"), ND("technology", "us")>>,
         newsApiConfig  |-> <<NA("in", "business"), NA("in", "technology"),
                              NA("us", "business"), NA("us", "technology")>>],
     AFTERNOON |->
        [newsDataConfig |-> <<ND("entertainment", "in"), ND("entertainment", "us"),
                              ND("sports", "us"), ND("sports", "in")>>,
         newsApiConfig  |-> <<NA("in", "entertainment"), NA("in", "sports"),
                              NA("us", "entertainment"), NA("us", "sports")>>],
     EVENING |->
        [newsDataConfig |-> <<ND("health", "in"), ND("health", "us"),
                              ND("science", "us"), ND("science", "in"),
                              ND("politics", "in"), ND("politics", "us")>>,
         newsApiConfig  |-> <<NA("in", "health"), NA("us", "health"),
                              NA("in", "science"), NA("us", "science")>>],
     NIGHT |->
        [newsDataConfig |-> <<ND("top", Undefined), ND("politics", "us"),
                              ND("technology", "in"), ND("politics", "in"),
                              ND("technology", "us")>>,
         newsApiConfig  |-> <<NA("in", Undefined), NA("us", Undefined)>>]]

\* API_LIMITS
API_LIMITS ==
    [newsDataIo |-> [dailyLimit |-> 200, perFetchLimit |-> 40],
     newsApiOrg |-> [dailyLimit |-> 100, perFetchLimit |-> 20]]

\* Object.keys(FETCH_SCHEDULE), in insertion order
ScheduleKeys == <<"EARLY_MORNING", "MORNING", "AFTERNOON", "EVENING", "NIGHT">>

SlotNames == {ScheduleKeys[i] : i \in 1..Len(ScheduleKeys)}

checkEmptyOnStartup == TRUE

\* schedules.reduce((sum, schedule) => sum + schedule.newsDataConfig.length, 0)
\* over the first n schedules
RECURSIVE NewsDataTotal(_)
NewsDataTotal(n) ==
    IF n = 0 THEN 0
    ELSE NewsDataTotal(n - 1) + Len(FETCH_SCHEDULE[ScheduleKeys[n]].newsDataConfig)

\* schedules.reduce((sum, schedule) => sum + schedule.newsApiConfig.length, 0)
RECURSIVE NewsApiTotal(_)
NewsApiTotal(n) ==
    IF n = 0 THEN 0
    ELSE NewsApiTotal(n - 1) + Len(FETCH_SCHEDULE[ScheduleKeys[n]].newsApiConfig)

\* a slip: both totals are taken over newsDataConfig
EstimateFromNewsDataOnly ==
    LET newsDataTotal == NewsDataTotal(Len(ScheduleKeys))
        newsApiTotal  == NewsDataTotal(Len(ScheduleKeys))
    IN  [newsDataIo |->
            [estimated |-> newsDataTotal,
             limit     |-> API_LIMITS.newsDataIo.dailyLimit,
             remaining |-> API_LIMITS.newsDataIo.dailyLimit - newsDataTotal],
         newsApiOrg |->
            [estimated |-> newsApiTotal,
             limit     |-> API_LIMITS.newsApiOrg.dailyLimit,
             remaining |-> API_LIMITS.newsApiOrg.dailyLimit - newsApiTotal]]

\* getEstimatedDailyCredits
getEstimatedDailyCredits ==
    LET newsDataTotal == NewsDataTotal(Len(ScheduleKeys))
        newsApiTotal  == NewsApiTotal(Len(ScheduleKeys))
    IN  [newsDataIo |->
            [estimated |-> newsDataTotal,
             limit     |-> API_LIMITS.newsDataIo.dailyLimit,
             remaining |-> API_LIMITS.newsDataIo.dailyLimit - newsDataTotal],
         newsApiOrg |->
            [estimated |-> newsApiTotal,
             limit     |-> API_LIMITS.newsApiOrg.dailyLimit,
             remaining |-> API_LIMITS.newsApiOrg.dailyLimit - newsApiTotal]]

-----------------------------------------------------------------------------
(* The normalizers *)

\* NewsFetchScheduler.normalizeNewsDataArticle
normalizeNewsDataArticle(article) ==
    [articleId   |-> "newsdata_" \o Or(article.article_id, article.link),
     title       |-> article.title,
     url         |-> article.link,
     publishedAt |-> NewDate(article.pubDate),
     category    |-> article.category,
     country     |-> article.country,
     language    |-> Or(article.language, "en"),
     sourceApi   |-> "newsdata.io"]

\* a slip that would merge the two providers' key spaces
NormalizeNewsApiOrgUntagged(article, category, country) ==
    [articleId   |-> "newsdata_" \o article.url,
     title       |-> article.title,
     url         |-> article.url,
     publishedAt |-> NewDate(article.publishedAt),
     category    |-> category,
     country     |-> country,
     language    |-> "en",
     sourceApi   |-> "newsapi.org"]

\* NewsFetchScheduler.normalizeNewsApiOrgArticle
normalizeNewsApiOrgArticle(article, category, country) ==
    [articleId   |-> "newsapi_" \o article.url,
     title       |-> article.title,
     url         |-> article.url,
     publishedAt |-> NewDate(article.publishedAt),
     category    |-> category,
     country     |-> country,
     language    |-> "en",
     sourceApi   |-> "newsapi.org"]

-----------------------------------------------------------------------------
(* The Article Store: mongoose model News over MongoDB *)

\* Mongoose casts every update against the schema; publishedAt is a Date
\* (News.model.js, publishedAt) and an Invalid Date does not cast.
CastFails(article) == ~article.publishedAt.valid

\* Languages the news_text_search index accepts in a document's `language`
\* field (MongoDB uses that field as the text index's language override).
TextIndexLanguages == {"en", "english", "none"}

\* A write the server refuses for this one document (a write error).
ServerRejects(article) == article.language \notin TextIndexLanguages

\* filter: { articleId: article.articleId }
Matches(s, article) == {d \in s : d.articleId = article.articleId}

\* a slip: the update leaves the country of the matched document as it was
SetFieldsKeepingCountry(d, article, t) ==
    [d EXCEPT !.title       = IF article.title # Undefined THEN article.title ELSE @,
              !.url         = IF article.url # Undefined THEN article.url ELSE @,
              !.publishedAt = article.publishedAt,
              !.category    = article.category,
              !.language    = article.language,
              !.sourceApi   = article.sourceApi,
              !.updatedAt   = t]

\* update: { $set: article } on a matched document; undefined values are
\* stripped from the update, fetchedAt and isDeleted are not in `article`;
\* timestamps: true adds updatedAt to the $set.
SetFields(d, article, t) ==
    [d EXCEPT !.title       = IF article.title # Undefined THEN article.title ELSE @,
              !.url         = IF article.url # Undefined THEN article.url ELSE @,
              !.publishedAt = article.publishedAt,
              !.category    = article.category,
              !.country     = article.country,
              !.language    = article.language,
              !.sourceApi   = article.sourceApi,
              !.updatedAt   = t]

\* upsert: true on no match: the document is inserted with the schema defaults
\* (fetchedAt: Date.now, isDeleted: false) and the timestamps.
NewDoc(article, t) ==
    [articleId   |-> article.articleId,
     title       |-> article.title,
     url         |-> article.url,
     publishedAt |-> article.publishedAt,
     category    |-> article.category,
     country     |-> article.country,
     language    |-> article.language,
     sourceApi   |-> article.sourceApi,
     fetchedAt   |-> t,
     updatedAt   |-> t,
     isDeleted   |-> FALSE]

\* a slip: insert without looking for the articleId first
InsertOne(s, article, t) == s \cup {NewDoc(article, t)}

\* a slip: the matched document is replaced by a new one
ReplaceOne(s, article, t) ==
    {d \in s : d.articleId # article.articleId} \cup {NewDoc(article, t)}

\* updateOne: { filter, update: { $set }, upsert: true }
UpsertOne(s, article, t) ==
    IF Matches(s, article) = {}
    THEN s \cup {NewDoc(article, t)}
    ELSE LET d == CHOOSE x \in Matches(s, article) : TRUE
         IN  (s \ {d}) \cup {SetFields(d, article, t)}

\* The server applies the operations of an unordered bulk write one by one;
\* a refused operation is recorded as a write error and the others go on.
\* timestamps: true puts updatedAt in every $set, so a matched document
\* counts as modified.
RECURSIVE ApplyOps(_, _, _)
ApplyOps(s, ops, t) ==
    IF ops = <<>>
    THEN [store |-> s, nUpserted |-> 0, nModified |-> 0, writeErrors |-> 0]
    ELSE LET a == Head(ops)
         IN  IF ServerRejects(a)
             THEN LET r == ApplyOps(s, Tail(ops), t)
                  IN  [r EXCEPT !.writeErrors = @ + 1]
             ELSE LET hit == Matches(s, a) # {}
                      r   == ApplyOps(UpsertOne(s, a, t), Tail(ops), t)
                  IN  [r EXCEPT !.nUpserted = @ + (IF hit THEN 0 ELSE 1),
                                !.nModified = @ + (IF hit THEN 1 ELSE 0)]

\* What the store does with one bulk write:
\*   "skip"  an operation that fails casting is left out, the rest is sent
\*   "abort" an operation that fails casting rejects the whole call
\*   "down"  the store cannot be reached
\* "skip" and "abort" are the two behaviours of Model.bulkWrite with
\* ordered: false, depending on the mongoose release installed.
StoreModes == {"skip", "abort", "down"}

\* News.bulkWrite(bulkOps, { ordered: false })
BulkWrite(s, articles, t, mode) ==
    LET unchanged == [threw |-> TRUE, writeErrors |-> 0, store |-> s,
                      nUpserted |-> 0, nModified |-> 0]
        castBad  == \E i \in 1..Len(articles) : CastFails(articles[i])
        valid    == SelectSeq(articles, LAMBDA a : ~CastFails(a))
        r        == ApplyOps(s, valid, t)
    IN  IF mode = "down" \/ (mode = "abort" /\ castBad)
        THEN unchanged
        ELSE [threw |-> r.writeErrors > 0, writeErrors |-> r.writeErrors,
              store |-> r.store, nUpserted |-> r.nUpserted,
              nModified |-> r.nModified]

\* newsSchema.statics.bulkUpsert
bulkUpsert(s, articles, t, mode) ==
    IF Len(articles) = 0
    THEN [threw |-> FALSE, store |-> s, success |-> 0, errors |-> 0]
    ELSE LET w == BulkWrite(s, articles, t, mode)
         IN  IF ~w.threw
             THEN [threw |-> FALSE, store |-> w.store,
                   success |-> w.nUpserted + w.nModified, errors |-> 0]
             ELSE IF w.writeErrors > 0
             THEN [threw |-> FALSE, store |-> w.store,
                   success |-> w.nUpserted + w.nModified,
                   errors |-> w.writeErrors]
             ELSE [threw |-> TRUE, store |-> w.store, success |-> 0, errors |-> 0]

\* NewsFetchScheduler.saveArticlesToDB
saveArticlesToDB(s, articles, t, mode) ==
    IF Len(articles) = 0
    THEN [threw |-> FALSE, store |-> s, saved |-> 0, updated |-> 0]
    ELSE LET w == BulkWrite(s, articles, t, mode)
         IN  [threw |-> w.threw, store |-> w.store,
              saved |-> w.nUpserted, updated |-> w.nModified]

-----------------------------------------------------------------------------
(* The upstream providers: what an HTTP call can answer *)

RawA(id, link, lang) ==
    [article_id |-> id, link |-> link, title |-> "T", pubDate |-> "d1",
     category |-> <<"top">>, country |-> <<"in">>, language |-> lang]

RawB(url, title, date) == [url |-> url, title |-> title, publishedAt |-> date]

a1 == RawA("n1", "u1", "english")
a2 == RawA("n2", "u2", "english")
aHindi == RawA("n3", "u3", "hindi")

b1 == RawB("u1", "T", "d1")
b2 == RawB("u2", "T", "d2")
bNoTitle == RawB("u3", Null, "d1")
bBadDate == RawB("u4", "T", "garbage")
b3 == RawB("u5", "T", "d2")

\* non-empty result pages of provider A (NewsData.io) and B (NewsAPI.org)
PagesA == {<<a1, a2>>}
PagesB == {<<b1>>, <<b2>>, <<bNoTitle>>, <<bBadDate>>}

HttpFail == [ok |-> FALSE]
HttpOk(body) == [ok |-> TRUE, data |-> body]

\* answers of GET /news of provider A, given the pages served so far
AnswersA(p) ==
    {HttpFail, HttpOk([status |-> "success", results |-> <<>>])}
    \cup (IF p < MaxPages
          THEN {HttpOk([status |-> "success", results |-> pg]) : pg \in PagesA}
          ELSE {})

\* answers of GET /top-headlines of provider B
AnswersB(p) ==
    {HttpFail, HttpOk([status |-> "ok", articles |-> <<>>])}
    \cup (IF p < MaxPages
          THEN {HttpOk([status |-> "ok", articles |-> pg]) : pg \in PagesB}
          ELSE {})

NonEmpty(answer) ==
    /\ answer.ok
    /\ \/ "results" \in DOMAIN answer.data /\ answer.data.results # <<>>
       \/ "articles" \in DOMAIN answer.data /\ answer.data.articles # <<>>

Served(answer) == IF NonEmpty(answer) THEN 1 ELSE 0

\* NewsApiService.getLatestNews: wraps the body, or throws handleError(error)
Thrown == [threw |-> TRUE]

getLatestNews(answer) ==
    IF answer.ok
    THEN [threw |-> FALSE, value |-> [success |-> TRUE, data |-> answer.data]]
    ELSE Thrown

\* NewsApiOrgService.getTopHeadlines -> makeRequest: returns response.data,
\* or handleError throws
getTopHeadlines(answer) ==
    IF answer.ok
    THEN [threw |-> FALSE, value |-> answer.data]
    ELSE Thrown

\* result.results.map((article) => this.normalizeNewsDataArticle(article))
NormalizeAllNewsData(results) ==
    [k \in 1..Len(results) |-> normalizeNewsDataArticle(results[k])]

\* result.articles.map((article) => this.normalizeNewsApiOrgArticle(...))
NormalizeAllNewsApiOrg(articles, category, country) ==
    [k \in 1..Len(articles) |->
        normalizeNewsApiOrgArticle(articles[k], category, country)]

\* NewsFetchScheduler.fetchFromNewsData: result?.results of what
\* getLatestNews returned
fetchFromNewsData(answer) ==
    LET result == getLatestNews(answer)
    IN  IF result.threw
        THEN <<>>
        ELSE IF "results" \in DOMAIN result.value
        THEN NormalizeAllNewsData(result.value.results)
        ELSE <<>>

\* config.category ? [config.category] : []
Wrap(v) == IF Truthy(v) THEN <<v>> ELSE <<>>

\* NewsFetchScheduler.fetchFromNewsApiOrg
\* a slip: the normalizer is called with the article alone, so that category
\* and country take their defaults
fetchFromNewsApiOrgUntagged(config, answer) ==
    LET result == getTopHeadlines(answer)
    IN  IF result.threw
        THEN <<>>
        ELSE IF "articles" \in DOMAIN result.value
        THEN NormalizeAllNewsApiOrg(result.value.articles, <<>>, <<>>)
        ELSE <<>>

fetchFromNewsApiOrg(config, answer) ==
    LET result == getTopHeadlines(answer)
    IN  IF result.threw
        THEN <<>>
        ELSE IF "articles" \in DOMAIN result.value
        THEN NormalizeAllNewsApiOrg(result.value.articles,
                                    Wrap(config.category), Wrap(config.country))
        ELSE <<>>

-----------------------------------------------------------------------------
(* NewsFetchScheduler.executeScheduledFetch *)

ExecIds == 1..MaxExecs

NoExec == [pc |-> "idle"]

Idle(e) == execs[e].pc = "idle"

\* where an execution goes after the provider A loop / at its start
AfterNewsData(schedule) ==
    IF Len(schedule.newsApiConfig) > 0 THEN "newsApi" ELSE "save"

FirstPc(schedule) ==
    IF Len(schedule.newsDataConfig) > 0 THEN "newsData" ELSE AfterNewsData(schedule)

\* rawA, aAllFailed and bAnyOk record what the upstream answered; fetchedA
\* and fetchedB list the parameter sets a request was issued for, in order
NewExec(name, origin) ==
    [pc |-> FirstPc(FETCH_SCHEDULE[name]), slot |-> name, origin |-> origin,
     i |-> 1, allArticles |-> <<>>, rawA |-> <<>>,
     aAllFailed |-> TRUE, bAnyOk |-> FALSE,
     fetchedA |-> <<>>, fetchedB |-> <<>>]

\* a new execution of slot name takes the first free place
Launch(name, origin) ==
    \E e \in ExecIds :
        /\ Idle(e)
        /\ \A f \in ExecIds : f < e => ~Idle(f)
        /\ execs' = [execs EXCEPT ![e] = NewExec(name, origin)]

\* the call executeScheduledFetch(scheduleName), up to its first await
Begin(name, origin) ==
    IF name \notin DOMAIN FETCH_SCHEDULE
    THEN UNCHANGED <<execs, started>>
    ELSE /\ started < MaxRuns
         /\ Launch(name, origin)
         /\ started' = started + 1

Control == <<enabled, isRunning, scheduledJobs, armed, bootChecks, bootTimeouts>>

\* a slip: a failed provider A fetch ends the provider A loop
FetchNewsDataAbortOnFailure(e) ==
    /\ execs[e].pc = "newsData"
    /\ \E answer \in AnswersA(pages) :
         LET x        == execs[e]
             schedule == FETCH_SCHEDULE[x.slot]
             articles == fetchFromNewsData(answer)
             last     == x.i = Len(schedule.newsDataConfig) \/ ~answer.ok
         IN  /\ execs' = [execs EXCEPT ![e] =
                    [x EXCEPT !.allArticles = @ \o articles,
                              !.rawA = IF answer.ok THEN @ \o answer.data.results ELSE @,
                              !.aAllFailed = @ /\ ~answer.ok,
                              !.fetchedA = Append(@, x.i),
                              !.i = IF last THEN 1 ELSE @ + 1,
                              !.pc = IF last THEN AfterNewsData(schedule) ELSE @]]
             /\ pages' = pages + Served(answer)
             /\ upstreamCalls' = [upstreamCalls EXCEPT !.newsData = @ + 1]
    /\ UNCHANGED <<store, now, Control, started, fetchStats, lastFetchTimes,
                   reply, lastDone, normOut, connection>>

\* one turn of `for (const config of schedule.newsDataConfig)`
FetchNewsData(e) ==
    /\ execs[e].pc = "newsData"
    /\ \E answer \in AnswersA(pages) :
         LET x        == execs[e]
             schedule == FETCH_SCHEDULE[x.slot]
             articles == fetchFromNewsData(answer)
             last     == x.i = Len(schedule.newsDataConfig)
         IN  /\ execs' = [execs EXCEPT ![e] =
                    [x EXCEPT !.allArticles = @ \o articles,
                              !.rawA = IF answer.ok THEN @ \o answer.data.results ELSE @,
                              !.aAllFailed = @ /\ ~answer.ok,
                              !.fetchedA = Append(@, x.i),
                              !.i = IF last THEN 1 ELSE @ + 1,
                              !.pc = IF last THEN AfterNewsData(schedule) ELSE @]]
             /\ pages' = pages + Served(answer)
             /\ upstreamCalls' = [upstreamCalls EXCEPT !.newsData = @ + 1]
    /\ UNCHANGED <<store, now, Control, started, fetchStats, lastFetchTimes,
                   reply, lastDone, normOut, connection>>

\* a slip: the provider B requests of a slot are issued together
\* (Promise.all over newsApiConfig), before the provider A loop is left
FetchNewsApiOrgAllAtOnce(e) ==
    /\ execs[e].pc \in {"newsData", "newsApi"}
    /\ execs[e].fetchedB = <<>>
    /\ \E answer \in AnswersB(pages) :
         LET x        == execs[e]
             schedule == FETCH_SCHEDULE[x.slot]
             nB       == Len(schedule.newsApiConfig)
             articles == fetchFromNewsApiOrg(schedule.newsApiConfig[1], answer)
             done     == x.pc = "newsApi"
         IN  /\ execs' = [execs EXCEPT ![e] =
                    [x EXCEPT !.allArticles = @ \o articles,
                              !.bAnyOk = @ \/ answer.ok,
                              !.fetchedB = [k \in 1..nB |-> k],
                              !.pc = IF done THEN "save" ELSE @]]
             /\ pages' = pages + Served(answer)
             /\ upstreamCalls' = [upstreamCalls EXCEPT !.newsApi = @ + nB]
    /\ UNCHANGED <<store, now, Control, started, fetchStats, lastFetchTimes,
                   reply, lastDone, normOut, connection>>

\* one turn of `for (const config of schedule.newsApiConfig)`
FetchNewsApiOrg(e) ==
    /\ execs[e].pc = "newsApi"
    /\ \E answer \in AnswersB(pages) :
         LET x        == execs[e]
             schedule == FETCH_SCHEDULE[x.slot]
             articles == fetchFromNewsApiOrg(schedule.newsApiConfig[x.i], answer)
             last     == x.i = Len(schedule.newsApiConfig)
         IN  /\ execs' = [execs EXCEPT ![e] =
                    [x EXCEPT !.allArticles = @ \o articles,
                              !.bAnyOk = @ \/ answer.ok,
                              !.fetchedB = Append(@, x.i),
                              !.i = IF last THEN 1 ELSE @ + 1,
                              !.pc = IF last THEN "save" ELSE @]]
             /\ pages' = pages + Served(answer)
             /\ upstreamCalls' = [upstreamCalls EXCEPT !.newsApi = @ + 1]
    /\ UNCHANGED <<store, now, Control, started, fetchStats, lastFetchTimes,
                   reply, lastDone, normOut, connection>>

\* how an execution ends: the three branches of `if (allArticles.length > 0)
\* ... else ... catch`
Outcome(articles, r) ==
    IF Len(articles) = 0 THEN "empty"
    ELSE IF r.threw THEN "failed"
    ELSE "success"

\* a slip: the attempt is counted before the save and again in the catch
UpdateStatsTwiceOnFailure(stats, outcome, saved) ==
    [totalFetches      |-> stats.totalFetches
                           + (IF outcome = "failed" THEN 2 ELSE 1),
     successfulFetches |-> stats.successfulFetches
                           + (IF outcome = "success" THEN 1 ELSE 0),
     failedFetches     |-> stats.failedFetches
                           + (IF outcome = "failed" THEN 1 ELSE 0),
     articlesSaved     |-> stats.articlesSaved
                           + (IF outcome = "success" THEN saved ELSE 0)]

\* the stats update of each branch
UpdateStats(stats, outcome, saved) ==
    [totalFetches      |-> stats.totalFetches + 1,
     successfulFetches |-> stats.successfulFetches
                           + (IF outcome = "success" THEN 1 ELSE 0),
     failedFetches     |-> stats.failedFetches
                           + (IF outcome = "failed" THEN 1 ELSE 0),
     articlesSaved     |-> stats.articlesSaved
                           + (IF outcome = "success" THEN saved ELSE 0)]

\* a slip: the catch block counts the failure and rethrows; the promise of
\* a timer callback is handled by nobody, and the unhandled rejection ends
\* the process with its timers
FinishRethrowing(e) ==
    /\ execs[e].pc = "save"
    /\ \E mode \in StoreModes :
         LET x       == execs[e]
             t       == now + 1
             r       == saveArticlesToDB(store, x.allArticles, t, mode)
             outcome == Outcome(x.allArticles, r)
             thrown  == outcome = "failed"
             ended   == thrown /\ x.origin = "timer"
         IN  /\ store' = r.store
             /\ now' = t
             /\ fetchStats' = UpdateStats(fetchStats, outcome, r.saved)
             /\ lastFetchTimes' =
                  IF outcome = "success"
                  THEN [lastFetchTimes EXCEPT ![x.slot] = <<t>>]
                  ELSE lastFetchTimes
             /\ lastDone' = [outcome |-> outcome, aAllFailed |-> x.aAllFailed,
                             bAnyOk |-> x.bAnyOk,
                             storeDown |-> outcome = "failed" /\ mode = "down",
                             origin |-> x.origin, rejected |-> thrown]
             /\ execs' = [execs EXCEPT ![e] = NoExec]
             /\ isRunning' = (isRunning /\ ~ended)
             /\ armed' = IF ended THEN {} ELSE armed
    /\ UNCHANGED <<enabled, scheduledJobs, bootChecks, bootTimeouts, started,
                   upstreamCalls, pages, reply, normOut, connection>>

\* the save and the stats update that follows it; the write happens at
\* instant t, later than every write before
Finish(e) ==
    /\ execs[e].pc = "save"
    /\ \E mode \in StoreModes :
         LET x       == execs[e]
             t       == now + 1
             r       == saveArticlesToDB(store, x.allArticles, t, mode)
             outcome == Outcome(x.allArticles, r)
         IN  /\ store' = r.store
             /\ now' = t
             /\ fetchStats' = UpdateStats(fetchStats, outcome, r.saved)
             /\ lastFetchTimes' =
                  IF outcome = "success"
                  THEN [lastFetchTimes EXCEPT ![x.slot] = <<t>>]
                  ELSE lastFetchTimes
             /\ lastDone' = [outcome |-> outcome, aAllFailed |-> x.aAllFailed,
                             bAnyOk |-> x.bAnyOk,
                             storeDown |-> outcome = "failed" /\ mode = "down",
                             origin |-> x.origin, rejected |-> FALSE]
             /\ execs' = [execs EXCEPT ![e] = NoExec]
    /\ UNCHANGED <<Control, started, upstreamCalls, pages, reply, normOut, connection>>

\* the names triggerManualFetch is called with: two configured slots and a
\* name that is no slot
ManualNames == {"MORNING", "NIGHT", "LUNCH"}

\* NewsFetchScheduler.triggerManualFetch
triggerManualFetch(scheduleName) ==
    /\ Begin(scheduleName, "manual")
    /\ UNCHANGED <<store, now, Control, fetchStats, lastFetchTimes,
                   upstreamCalls, pages, reply, lastDone, normOut, connection>>

-----------------------------------------------------------------------------
(* UnifiedNewsService.refreshCache and News.bulkUpsert *)

\* the filters of POST /refresh
RefreshFilters == {[category |-> "business", country |-> "in"],
                   [category |-> Undefined, country |-> Undefined]}

\* UnifiedNewsService.refreshCache; its normalizers and its saveArticlesToDB
\* are copies of the scheduler's.  Both requests are issued before either
\* answer is looked at (Promise.allSettled).
refreshCache(filters) ==
    /\ started < MaxRuns
    /\ \E answerA \in AnswersA(pages), mode \in StoreModes :
       \E answerB \in AnswersB(pages + Served(answerA)) :
         LET newsDataResult   == getLatestNews(answerA)
             newsApiOrgResult == getTopHeadlines(answerB)
             fromA == IF ~newsDataResult.threw
                         /\ "results" \in DOMAIN newsDataResult.value
                      THEN NormalizeAllNewsData(newsDataResult.value.results)
                      ELSE <<>>
             fromB == IF ~newsApiOrgResult.threw
                         /\ "articles" \in DOMAIN newsApiOrgResult.value
                      THEN NormalizeAllNewsApiOrg(
                               newsApiOrgResult.value.articles,
                               Wrap(filters.category), Wrap(filters.country))
                      ELSE <<>>
             t == now + 1
             r == saveArticlesToDB(store, fromA \o fromB, t, mode)
         IN  /\ store' = r.store
             /\ now' = t
             /\ pages' = pages + Served(answerA) + Served(answerB)
             /\ upstreamCalls' = [newsData |-> upstreamCalls.newsData + 1,
                                  newsApi  |-> upstreamCalls.newsApi + 1]
             /\ reply' = [op |-> "refreshCache", filters |-> filters,
                          threw |-> r.threw,
                          saved |-> r.saved, updated |-> r.updated]
    /\ started' = started + 1
    /\ UNCHANGED <<Control, execs, fetchStats, lastFetchTimes, lastDone, normOut, connection>>

\* normalized records a caller can hand to News.bulkUpsert
Records == {normalizeNewsApiOrgArticle(b1, <<>>, <<>>),
            normalizeNewsApiOrgArticle(bBadDate, <<>>, <<>>),
            normalizeNewsDataArticle(aHindi)}

Batches == UNION {[1..n -> Records] : n \in 0..MaxBatch}

\* a call News.bulkUpsert(articles)
BulkUpsertCall(articles) ==
    /\ started < MaxRuns
    /\ \E mode \in StoreModes :
         LET t == now + 1
             r == bulkUpsert(store, articles, t, mode)
         IN  /\ store' = r.store
             /\ now' = t
             /\ reply' = [op |-> "bulkUpsert", threw |-> r.threw,
                          given |-> articles,
                          success |-> r.success, errors |-> r.errors,
                          mode |-> mode]
    /\ started' = started + 1
    /\ UNCHANGED <<Control, execs, fetchStats, lastFetchTimes, upstreamCalls,
                   pages, lastDone, normOut, connection>>

-----------------------------------------------------------------------------
(* The ingestion pipeline *)

NoReply == [op |-> "none"]

NoneDone == [outcome |-> "none", aAllFailed |-> FALSE, bAnyOk |-> FALSE,
             storeDown |-> FALSE, origin |-> "none", rejected |-> FALSE]

\* the state of a process that has just been constructed
Constructed ==
    /\ isRunning = FALSE
    /\ scheduledJobs = <<>>
    /\ armed = {}
    /\ bootChecks = 0
    /\ bootTimeouts = 0
    /\ execs = [e \in ExecIds |-> NoExec]
    /\ started = 0
    /\ fetchStats = [totalFetches |-> 0, successfulFetches |-> 0,
                     failedFetches |-> 0, articlesSaved |-> 0]
    /\ lastFetchTimes = [s \in SlotNames |-> <<>>]
    /\ upstreamCalls = [newsData |-> 0, newsApi |-> 0]
    /\ pages = 0
    /\ reply = NoReply
    /\ lastDone = NoneDone
    /\ normOut = <<>>
    /\ connection = NotConnected

Init ==
    /\ store = {}
    /\ now = 0
    /\ enabled = TRUE
    /\ Constructed

Next ==
    \/ \E name \in ManualNames : triggerManualFetch(name)
    \/ \E e \in ExecIds : FetchNewsData(e)
    \/ \E e \in ExecIds : FetchNewsApiOrg(e)
    \/ \E e \in ExecIds : Finish(e)
    \/ \E filters \in RefreshFilters : refreshCache(filters)
    \/ \E articles \in Batches : BulkUpsertCall(articles)

Spec == Init /\ [][Next]_vars

-----------------------------------------------------------------------------
(* Properties of the ingestion pipeline (Spec) *)

Ids(s) == {d.articleId : d \in s}

\* C1: the store never holds two records with the same articleId, whatever
\* writers upserted them and however often, and a write never removes an
\* articleId: once upserted, a record stays the one record of its articleId.
C1_IdempotentUpsert ==
    /\ [](\A d1 \in store, d2 \in store : d1.articleId = d2.articleId => d1 = d2)
    /\ [][Ids(store) \subseteq Ids(store')]_vars

\* a record has been upserted again after its insertion and is still alone
C1_UpsertedTwice ==
    \E d \in store :
        /\ d.updatedAt > d.fetchedAt
        /\ Cardinality({x \in store : x.articleId = d.articleId}) = 1

\* a normalized record the schema and the store accept
ValidRecord(a) == Truthy(a.title) /\ a.publishedAt.valid /\ ~ServerRejects(a)

FromB(articles) == SelectSeq(articles, LAMBDA a : a.sourceApi = "newsapi.org")

\* the step in which execution e finishes
Finishes(e) == execs[e].pc = "save" /\ execs'[e].pc = "idle"

\* what provider A and provider B delivered to execution x is valid and has
\* pairwise distinct native ids / urls
AllValidDistinct(x) ==
    LET fromB == FromB(x.allArticles)
    IN  /\ \A k \in 1..Len(x.rawA) : ValidRecord(normalizeNewsDataArticle(x.rawA[k]))
        /\ \A k \in 1..Len(fromB) : ValidRecord(fromB[k])
        /\ Cardinality({x.rawA[k].article_id : k \in 1..Len(x.rawA)}) = Len(x.rawA)
        /\ Cardinality({fromB[k].url : k \in 1..Len(fromB)}) = Len(fromB)

\* C2: an execution over an empty store to which provider A delivered a
\* and provider B delivered b valid articles, all distinct, and whose write
\* the store did not refuse, leaves a + b records, sets the slot's
\* lastFetchTimes and adds a + b to articlesSaved.
C2_BasicIngestion ==
    [][\A e \in ExecIds :
          (/\ Finishes(e)
           /\ store = {}
           /\ AllValidDistinct(execs[e])
           /\ Len(execs[e].rawA) + Len(FromB(execs[e].allArticles)) > 0
           /\ lastDone'.outcome # "failed")
          => LET n == Len(execs[e].rawA) + Len(FromB(execs[e].allArticles))
             IN  /\ Cardinality(store') = n
                 /\ lastFetchTimes'[execs[e].slot] # <<>>
                 /\ fetchStats'.articlesSaved = fetchStats.articlesSaved + n
      ]_vars

\* C4: an execution in which every provider A call failed and a provider B
\* call delivered valid records, and whose write the store did not refuse,
\* is counted successful, not failed, and adds a positive amount to
\* articlesSaved.
C4_FailureContained ==
    [][\A e \in ExecIds :
          (/\ Finishes(e)
           /\ execs[e].aAllFailed
           /\ execs[e].bAnyOk
           /\ execs[e].allArticles # <<>>
           /\ \A k \in 1..Len(execs[e].allArticles) :
                  ValidRecord(execs[e].allArticles[k])
           /\ lastDone'.outcome # "failed")
          => /\ fetchStats'.successfulFetches = fetchStats.successfulFetches + 1
             /\ fetchStats'.failedFetches = fetchStats.failedFetches
             /\ fetchStats'.articlesSaved > fetchStats.articlesSaved
             /\ \A k \in 1..Len(execs[e].allArticles) :
                  execs[e].allArticles[k].articleId \in Ids(store')
      ]_vars

\* the store refuses record a: it does not cast, or the server rejects it
Rejected(a) == CastFails(a) \/ ServerRejects(a)

\* C5: News.bulkUpsert, given a batch with exactly one record the store
\* rejects while the store is reachable, does not throw, commits every other
\* record of the batch and reports exactly one error.
C5_PartialBatch ==
    (/\ reply.op = "bulkUpsert"
     /\ reply.mode # "down"
     /\ Cardinality({k \in 1..Len(reply.given) : Rejected(reply.given[k])}) = 1)
    => /\ ~reply.threw
       /\ reply.errors = 1
       /\ \A k \in 1..Len(reply.given) :
            ~Rejected(reply.given[k]) => reply.given[k].articleId \in Ids(store)

\* C6: no stored record lacks a title or a parsed publication date.
C6_RequiredFields ==
    \A d \in store : Truthy(d.title) /\ d.publishedAt.valid

\* C13: an execution of a slot sets the slot's lastFetchTimes exactly when it
\* completes without throwing, also when it has nothing to commit, and such
\* an execution adds exactly one to successfulFetches.
C13_LastFetchOnCompletion ==
    [][\A e \in ExecIds :
          Finishes(e)
          => LET slot     == execs[e].slot
                 complete == lastDone'.outcome # "failed"
             IN  /\ (lastFetchTimes'[slot] # lastFetchTimes[slot]) <=> complete
                 /\ complete =>
                      fetchStats'.successfulFetches = fetchStats.successfulFetches + 1
      ]_vars

\* C14: an execution whose bulk write throws adds exactly one to
\* failedFetches and to totalFetches and leaves successfulFetches,
\* articlesSaved and every lastFetchTimes entry as they were.
C14_StoreUnavailable ==
    [][\A e \in ExecIds :
          (Finishes(e) /\ lastDone'.outcome = "failed")
          => /\ fetchStats'.failedFetches = fetchStats.failedFetches + 1
             /\ fetchStats'.totalFetches = fetchStats.totalFetches + 1
             /\ fetchStats'.successfulFetches = fetchStats.successfulFetches
             /\ fetchStats'.articlesSaved = fetchStats.articlesSaved
             /\ lastFetchTimes' = lastFetchTimes
      ]_vars

\* an execution has ended on a store that could not be reached, after an
\* earlier one had succeeded
C14_WriteThrew ==
    /\ lastDone.storeDown
    /\ fetchStats.failedFetches = 1
    /\ fetchStats.successfulFetches = 1

\* the positions 1 .. n, in order
UpTo(n) == [k \in 1..n |-> k]

\* C15: an execution that has left its fetch loops has issued exactly one
\* request for each parameter set of provider A and of provider B of its
\* slot, whatever the requests answered; inside a loop it has issued one for
\* each parameter set before the current one.
C15_EachSetOnce ==
    \A e \in ExecIds :
        LET x == execs[e]
        IN  x.pc # "idle" =>
              LET schedule == FETCH_SCHEDULE[x.slot]
                  nA == Len(schedule.newsDataConfig)
                  nB == Len(schedule.newsApiConfig)
              IN  /\ x.pc = "newsData" =>
                        x.fetchedA = UpTo(x.i - 1) /\ x.fetchedB = <<>>
                  /\ x.pc = "newsApi" =>
                        x.fetchedA = UpTo(nA) /\ x.fetchedB = UpTo(x.i - 1)
                  /\ x.pc = "save" =>
                        x.fetchedA = UpTo(nA) /\ x.fetchedB = UpTo(nB)

\* an execution is about to save after every provider A request failed and
\* provider B delivered
C15_AllFetchedDespiteFailures ==
    \E e \in ExecIds :
        /\ execs[e].pc = "save"
        /\ execs[e].aAllFailed
        /\ execs[e].bAnyOk
        /\ execs[e].allArticles # <<>>
        /\ Len(execs[e].fetchedA) > 1
        /\ Len(execs[e].fetchedB) > 1

\* C18: the fetchedAt of every stored record is the instant of the last
\* successful upsert of that record, its first or a later one (updatedAt is
\* that instant: every upsert sets it).
C18_FetchedAtLastTouch ==
    \A d \in store : d.fetchedAt = d.updatedAt

\* the upstream calls issued so far
CallsIssued(calls) == calls.newsData + calls.newsApi

\* C23: a step of a slot execution issues at most one upstream call and has
\* its answer before the execution goes on; a call to provider B is issued
\* only when every provider A parameter set of the slot has been fetched;
\* the execution writes the store in one step only, its last, after all its
\* fetches.
C23_Ordering ==
    [][\A e \in ExecIds :
          (execs[e].pc # "idle" /\ execs'[e] # execs[e])
          => LET x        == execs[e]
                 schedule == FETCH_SCHEDULE[x.slot]
                 nA       == Len(schedule.newsDataConfig)
                 nB       == Len(schedule.newsApiConfig)
             IN  /\ CallsIssued(upstreamCalls') - CallsIssued(upstreamCalls) <= 1
                 /\ upstreamCalls'.newsApi > upstreamCalls.newsApi
                      => x.fetchedA = UpTo(nA)
                 /\ x.pc \in {"newsData", "newsApi"}
                      => /\ store' = store
                         /\ CallsIssued(upstreamCalls') = CallsIssued(upstreamCalls) + 1
                 /\ x.pc = "save"
                      => /\ x.fetchedA = UpTo(nA) /\ x.fetchedB = UpTo(nB)
                         /\ upstreamCalls' = upstreamCalls
                         /\ execs'[e].pc = "idle"
      ]_vars

\* an execution has written the store after its provider A and provider B
\* calls
C23_WrittenAfterFetches ==
    /\ lastDone.outcome = "success"
    /\ store # {}
    /\ upstreamCalls.newsData > 1
    /\ upstreamCalls.newsApi > 1
    /\ fetchStats.totalFetches = 1
    /\ \A e \in ExecIds : Idle(e)

\* a request parameter as a list: empty when the request has none
AsList(v) == IF v = Undefined THEN <<>> ELSE <<v>>

\* the record carries the category and the country of the request
Tagged(rec, request) ==
    /\ rec.category = AsList(request.category)
    /\ rec.country = AsList(request.country)

\* C26: every provider-B record carries the category and country of the
\* request that fetched it, as one-element lists, or empty lists when the
\* request has none: for every parameter set of every slot and every answer,
\* in every fetch step of an execution, and for the filters of refreshCache.
C26_RequestTags ==
    /\ [](\A name \in SlotNames :
            \A k \in 1..Len(FETCH_SCHEDULE[name].newsApiConfig) :
              \A answer \in AnswersB(0) :
                LET config == FETCH_SCHEDULE[name].newsApiConfig[k]
                    got    == fetchFromNewsApiOrg(config, answer)
                IN  \A n \in 1..Len(got) : Tagged(got[n], config))
    /\ [][\A e \in ExecIds :
             (execs[e].pc = "newsApi" /\ execs'[e] # execs[e])
             => LET x      == execs[e]
                    config == FETCH_SCHEDULE[x.slot].newsApiConfig[x.i]
                    all    == execs'[e].allArticles
                IN  /\ SubSeq(all, 1, Len(x.allArticles)) = x.allArticles
                    /\ \A n \in (Len(x.allArticles) + 1)..Len(all) :
                          /\ all[n].sourceApi = "newsapi.org"
                          /\ Tagged(all[n], config)]_vars
    /\ [][(started' = started + 1 /\ reply'.op = "refreshCache"
             /\ now' = now + 1)
           => \A d \in store' :
                (d.sourceApi = "newsapi.org" /\ d.updatedAt = now')
                => Tagged(d, reply'.filters)]_vars

\* the second parameter set of MORNING (in, technology) has fetched a record
C26_TechnologyFetched ==
    \E e \in ExecIds :
        /\ execs[e].pc # "idle"
        /\ execs[e].slot = "MORNING"
        /\ \E k \in 1..Len(execs[e].fetchedB) : execs[e].fetchedB[k] = 2
        /\ \E n \in 1..Len(execs[e].allArticles) :
              /\ execs[e].allArticles[n].category = <<"technology">>
              /\ execs[e].allArticles[n].country = <<"in">>

\* C28: whenever no slot execution is in flight, totalFetches equals
\* successfulFetches + failedFetches: every execution counted as an attempt
\* was counted as one success or one failure.
C28_CountersAdd ==
    (\A e \in ExecIds : Idle(e))
    => fetchStats.totalFetches
         = fetchStats.successfulFetches + fetchStats.failedFetches

-----------------------------------------------------------------------------
(* Executions and providers that may never answer (SpecLive) *)

\* NewsApiService.getLatestNews issues axios.request(config) with no timeout
\* in config, and axios waits without limit by default: when provider A never
\* answers, the await of fetchFromNewsData never resumes.
NewsDataNeverAnswers(e) ==
    /\ execs[e].pc = "newsData"
    /\ execs' = [execs EXCEPT ![e] =
                    [@ EXCEPT !.fetchedA = Append(@, execs[e].i),
                              !.pc = "awaiting"]]
    /\ upstreamCalls' = [upstreamCalls EXCEPT !.newsData = @ + 1]
    /\ UNCHANGED <<store, now, Control, started, fetchStats, lastFetchTimes,
                   pages, reply, lastDone, normOut, connection>>

\* NewsApiOrgService.makeRequest passes timeout: this.timeout, so a provider B
\* that never answers is the failed answer HttpFail of AnswersB.
\* the names SpecLive triggers: a configured slot and a name that is no slot
LiveNames == {"NIGHT", "LUNCH"}

NextLive ==
    \/ \E name \in LiveNames : triggerManualFetch(name)
    \/ \E e \in ExecIds : FetchNewsData(e)
    \/ \E e \in ExecIds : NewsDataNeverAnswers(e)
    \/ \E e \in ExecIds : FetchNewsApiOrg(e)
    \/ \E e \in ExecIds : Finish(e)

\* The event loop resumes an execution whenever the call it awaits has
\* settled: an answered or timed-out request, a settled bulk write.
Fairness ==
    \A e \in ExecIds :
        /\ WF_vars(FetchNewsData(e))
        /\ WF_vars(FetchNewsApiOrg(e))
        /\ WF_vars(Finish(e))

SpecLive == Init /\ [][NextLive]_vars /\ Fairness

\* C16: every execution that has started finishes.
C16_ExecutionsFinish ==
    \A e \in ExecIds : (execs[e].pc # "idle") ~> (execs[e].pc = "idle")

-----------------------------------------------------------------------------
(* Two executions whose bulk writes overlap at the server (SpecOverlap) *)

\* the end of executeScheduledFetch after its save: the stats update of the
\* try block or of the catch
Settle(e, threw, saved) ==
    LET outcome == IF threw THEN "failed" ELSE "success"
    IN  /\ fetchStats' = UpdateStats(fetchStats, outcome, saved)
        /\ lastFetchTimes' =
             IF outcome = "success"
             THEN [lastFetchTimes EXCEPT ![execs[e].slot] = <<now'>>]
             ELSE lastFetchTimes
        /\ lastDone' = [outcome |-> outcome, aAllFailed |-> execs[e].aAllFailed,
                        bAnyOk |-> execs[e].bAnyOk, storeDown |-> FALSE,
                        origin |-> execs[e].origin, rejected |-> FALSE]
        /\ execs' = [execs EXCEPT ![e] = NoExec]

\* an execution with nothing to save ends without a write
FinishEmpty(e) ==
    /\ execs[e].pc = "save"
    /\ execs[e].allArticles = <<>>
    /\ Finish(e)

\* News.bulkWrite(bulkOps, { ordered: false }) is sent: the call is rejected
\* as a whole (store unreachable, or a cast error in a release that aborts),
\* or the operations that cast reach the server
SendBulkWrite(e) ==
    /\ execs[e].pc = "save"
    /\ execs[e].allArticles # <<>>
    /\ \E mode \in StoreModes :
         LET x       == execs[e]
             castBad == \E k \in 1..Len(x.allArticles) : CastFails(x.allArticles[k])
         IN  IF mode = "down" \/ (mode = "abort" /\ castBad)
             THEN /\ now' = now + 1
                  /\ Settle(e, TRUE, 0)
                  /\ UNCHANGED store
             ELSE /\ execs' = [execs EXCEPT ![e] =
                        [pc |-> "writing", slot |-> x.slot, origin |-> x.origin,
                         allArticles |-> x.allArticles,
                         aAllFailed |-> x.aAllFailed, bAnyOk |-> x.bAnyOk,
                         sentAt |-> now,
                         pending |-> {k \in 1..Len(x.allArticles) :
                                         ~CastFails(x.allArticles[k])},
                         nUpserted |-> 0, nModified |-> 0, writeErrors |-> 0]]
                  /\ UNCHANGED <<store, now, fetchStats, lastFetchTimes, lastDone>>
    /\ UNCHANGED <<Control, started, upstreamCalls, pages, reply, normOut, connection>>

\* The server applies one operation of an unordered bulk write, whichever it
\* takes next, atomically for its document.  An upsert that finds a document
\* another write inserted since this bulk write was sent has raced it for the
\* unique articleId index: the server retries it as an update or reports a
\* duplicate key error, depending on its release.
ServerApply(e, k) ==
    /\ execs[e].pc = "writing"
    /\ k \in execs[e].pending
    /\ LET x     == execs[e]
           a     == x.allArticles[k]
           hit   == Matches(store, a) # {}
           raced == \E d \in Matches(store, a) : d.fetchedAt > x.sentAt
           t     == now + 1
       IN  \E dupKey \in {FALSE, raced} :
             IF ServerRejects(a) \/ dupKey
             THEN /\ execs' = [execs EXCEPT ![e] =
                        [x EXCEPT !.pending = @ \ {k},
                                  !.writeErrors = @ + 1]]
                  /\ UNCHANGED <<store, now>>
             ELSE /\ store' = UpsertOne(store, a, t)
                  /\ now' = t
                  /\ execs' = [execs EXCEPT ![e] =
                        [x EXCEPT !.pending = @ \ {k},
                                  !.nUpserted = @ + (IF hit THEN 0 ELSE 1),
                                  !.nModified = @ + (IF hit THEN 1 ELSE 0)]]
    /\ UNCHANGED <<Control, started, fetchStats, lastFetchTimes, upstreamCalls,
                   pages, reply, lastDone, normOut, connection>>

\* a slip: saved is taken to be upsertedCount + modifiedCount
BulkWriteReturnsCountingUpdates(e) ==
    /\ execs[e].pc = "writing"
    /\ execs[e].pending = {}
    /\ now' = now + 1
    /\ Settle(e, execs[e].writeErrors > 0,
              execs[e].nUpserted + execs[e].nModified)
    /\ UNCHANGED <<store, Control, started, upstreamCalls, pages, reply, normOut, connection>>

\* the bulk write answers: with its counts, or by throwing when an operation
\* was refused; saveArticlesToDB rethrows
BulkWriteReturns(e) ==
    /\ execs[e].pc = "writing"
    /\ execs[e].pending = {}
    /\ now' = now + 1
    /\ Settle(e, execs[e].writeErrors > 0, execs[e].nUpserted)
    /\ UNCHANGED <<store, Control, started, upstreamCalls, pages, reply, normOut, connection>>

NextOverlap ==
    \/ \E name \in LiveNames : triggerManualFetch(name)
    \/ \E e \in ExecIds : FetchNewsData(e)
    \/ \E e \in ExecIds : FetchNewsApiOrg(e)
    \/ \E e \in ExecIds : FinishEmpty(e)
    \/ \E e \in ExecIds : SendBulkWrite(e)
    \/ \E e \in ExecIds :
         /\ execs[e].pc = "writing"
         /\ \E k \in execs[e].pending : ServerApply(e, k)
    \/ \E e \in ExecIds : BulkWriteReturns(e)

SpecOverlap == Init /\ [][NextOverlap]_vars

\* the fields of `$set: article` are those of record d
Carries(d, a) ==
    /\ d.articleId = a.articleId
    /\ a.title # Undefined => d.title = a.title
    /\ a.url # Undefined => d.url = a.url
    /\ d.publishedAt = a.publishedAt
    /\ d.category = a.category
    /\ d.country = a.country
    /\ d.language = a.language
    /\ d.sourceApi = a.sourceApi

C30_SavedWithinStore ==
    /\ [](fetchStats.articlesSaved <= Cardinality(store))
    /\ [][\A e \in ExecIds :
             /\ (execs[e].pc = "writing" /\ execs'[e].pc = "writing"
                   /\ execs'[e] # execs[e])
                  => /\ execs'[e].nUpserted - execs[e].nUpserted
                          = Cardinality(store') - Cardinality(store)
                     /\ fetchStats' = fetchStats
             /\ (execs[e].pc = "writing" /\ execs'[e].pc = "idle")
                  => fetchStats'.articlesSaved - fetchStats.articlesSaved
                       = IF lastDone'.outcome = "success"
                         THEN execs[e].nUpserted ELSE 0]_vars
    /\ [][fetchStats'.articlesSaved # fetchStats.articlesSaved
           => \E e \in ExecIds : execs[e].pc = "writing" /\ execs'[e].pc = "idle"]_vars

\* two executions have ended in success on the same articleIds: the second
\* one updated and inserted nothing
C30_SecondOnlyUpdated ==
    /\ fetchStats.successfulFetches = 2
    /\ fetchStats.articlesSaved = Cardinality(store)
    /\ \E d \in store : d.updatedAt > d.fetchedAt
    /\ \A d \in store : d.updatedAt > d.fetchedAt
    /\ \A e \in ExecIds : Idle(e)

-----------------------------------------------------------------------------
(* NewsFetchScheduler: start, stop, the cron timers, the bootstrap; and the *)
(* manual trigger of SchedulerController                                    *)

Data == <<store, now, fetchStats, lastFetchTimes, upstreamCalls, pages,
          lastDone, normOut, connection>>

JobIds(jobs) == {j.id : j \in jobs}

Max(S) == CHOOSE m \in S : \A n \in S : n <= m

\* the first id no cron job in use carries
FreshBase == LET used == JobIds(armed) \cup {0} IN Max(used)

\* cron.schedule(...) for every key of FETCH_SCHEDULE, pushed to scheduledJobs
NewJobs == [k \in 1..Len(ScheduleKeys) |->
                [id |-> FreshBase + k, name |-> ScheduleKeys[k]]]

Range(sq) == {sq[k] : k \in 1..Len(sq)}

\* a slip: start() without the isRunning guard
StartUnguarded ==
    /\ IF ~enabled
       THEN UNCHANGED <<isRunning, scheduledJobs, armed, bootChecks>>
       ELSE /\ bootChecks + bootTimeouts < MaxStarts
            /\ scheduledJobs' = scheduledJobs \o NewJobs
            /\ armed' = armed \cup Range(NewJobs)
            /\ isRunning' = TRUE
            /\ bootChecks' = IF checkEmptyOnStartup THEN bootChecks + 1 ELSE bootChecks
    /\ UNCHANGED <<enabled, bootTimeouts, execs, started, reply, Data>>

\* NewsFetchScheduler.start
start ==
    /\ IF isRunning \/ ~enabled
       THEN UNCHANGED <<isRunning, scheduledJobs, armed, bootChecks>>
       ELSE /\ bootChecks + bootTimeouts < MaxStarts
            /\ scheduledJobs' = scheduledJobs \o NewJobs
            /\ armed' = armed \cup Range(NewJobs)
            /\ isRunning' = TRUE
            /\ bootChecks' = IF checkEmptyOnStartup THEN bootChecks + 1 ELSE bootChecks
    /\ UNCHANGED <<enabled, bootTimeouts, execs, started, reply, Data>>

\* NewsFetchScheduler.stop
stop ==
    /\ IF ~isRunning
       THEN UNCHANGED <<isRunning, scheduledJobs, armed>>
       ELSE /\ armed' = armed \ Range(scheduledJobs)
            /\ scheduledJobs' = <<>>
            /\ isRunning' = FALSE
    /\ UNCHANGED <<enabled, bootChecks, bootTimeouts, execs, started, reply, Data>>

\* the callback of an armed cron job: this.executeScheduledFetch(scheduleName)
TimerFire(j) ==
    /\ j \in armed
    /\ Begin(j.name, "timer")
    /\ UNCHANGED <<Control, reply, Data>>

\* a slip: the bootstrap fetch is scheduled whatever the count is
CheckWithoutCount ==
    /\ bootChecks > 0
    /\ bootChecks' = bootChecks - 1
    /\ \E ok \in BOOLEAN :
         LET count == Cardinality(store)
         IN  /\ bootTimeouts' = IF ok THEN bootTimeouts + 1 ELSE bootTimeouts
             /\ reply' = [op |-> "bootCheck", ok |-> ok, count |-> count]
    /\ UNCHANGED <<enabled, isRunning, scheduledJobs, armed, execs, started, Data>>

\* NewsFetchScheduler.checkAndFetchInitialData, from `await
\* News.countDocuments()` on; ok is whether the count query answered.  reply
\* keeps what the call logged.
checkAndFetchInitialData ==
    /\ bootChecks > 0
    /\ bootChecks' = bootChecks - 1
    /\ \E ok \in BOOLEAN :
         LET count == Cardinality(store)
         IN  /\ bootTimeouts' = IF ok /\ count = 0 THEN bootTimeouts + 1
                                ELSE bootTimeouts
             /\ reply' = [op |-> "bootCheck", ok |-> ok, count |-> count]
    /\ UNCHANGED <<enabled, isRunning, scheduledJobs, armed, execs, started, Data>>

\* the 3 s settle timeout fires: executeScheduledFetch("MORNING")
BootFire ==
    /\ bootTimeouts > 0
    /\ bootTimeouts' = bootTimeouts - 1
    /\ Begin("MORNING", "boot")
    /\ UNCHANGED <<enabled, isRunning, scheduledJobs, armed, bootChecks, reply, Data>>

\* request bodies of POST /api/scheduler/trigger: the `schedule` field
TriggerInputs == {"MORNING", "NIGHT", "LUNCH", Undefined}

\* a slip: the controller awaits the execution and answers when it is over
TriggerAwaited(schedule) ==
    /\ IF ~Truthy(schedule)
       THEN /\ reply' = [op |-> "trigger", code |-> 400, schedule |-> schedule,
                         status |-> "error"]
            /\ UNCHANGED <<execs, started>>
       ELSE /\ Begin(schedule, "manual")
            /\ UNCHANGED reply
    /\ UNCHANGED <<Control, Data>>

\* SchedulerController.triggerManualFetch
SchedulerController_triggerManualFetch(schedule) ==
    /\ IF ~Truthy(schedule)
       THEN /\ reply' = [op |-> "trigger", code |-> 400, schedule |-> schedule,
                         status |-> "error"]
            /\ UNCHANGED <<execs, started>>
       ELSE /\ Begin(schedule, "manual")
            /\ reply' = [op |-> "trigger", code |-> 202, schedule |-> schedule,
                         status |-> "triggered"]
    /\ UNCHANGED <<Control, Data>>

\* NewsFetchScheduler.getStatus, as GET /api/scheduler/status answers it
getStatus ==
    /\ reply' = [op |-> "status", isRunning |-> isRunning,
                 scheduledJobs |-> [k \in 1..Len(scheduledJobs) |-> scheduledJobs[k].name],
                 lastFetchTimes |-> lastFetchTimes, stats |-> fetchStats,
                 estimatedCredits |-> getEstimatedDailyCredits]
    /\ UNCHANGED <<Control, execs, started, Data>>

\* a document left in the collection by an earlier run of the process
SeedDoc == NewDoc(normalizeNewsApiOrgArticle(b1, <<>>, <<>>), 0)

\* at process start the collection is whatever earlier runs left in it, and
\* SCHEDULER_ENABLED is whatever the environment says
InitSched ==
    /\ store \in {{}, {SeedDoc}}
    /\ now = 0
    /\ enabled \in BOOLEAN
    /\ Constructed

\* the scheduler's control: executions are begun here, their steps are the
\* actions of Spec
NextSched ==
    \/ start
    \/ stop
    \/ \E j \in armed : TimerFire(j)
    \/ checkAndFetchInitialData
    \/ BootFire
    \/ \E schedule \in TriggerInputs : SchedulerController_triggerManualFetch(schedule)

SpecSched == InitSched /\ [][NextSched]_vars

-----------------------------------------------------------------------------
(* One day of the cron timers (SpecDay) *)

\* the timers that have fired today: every one whose execution has ended or
\* is under way
FiredToday == fetchStats.totalFetches + Cardinality({e \in ExecIds : ~Idle(e)})

\* The cron expressions of FETCH_SCHEDULE (6:00, 9:00, 13:00, 18:00, 22:00)
\* fire in the order of its keys, each once a day and hours after the one
\* before, whose execution has ended by then: the callback of job j runs
\* this.executeScheduledFetch(scheduleName).
CronFire(j) ==
    /\ j \in armed
    /\ \A e \in ExecIds : Idle(e)
    /\ FiredToday < Len(ScheduleKeys)
    /\ j.name = ScheduleKeys[FiredToday + 1]
    /\ Launch(j.name, "timer")
    /\ UNCHANGED <<Control, started, reply, Data>>

\* the jobs of the first start()
FirstJobs == [k \in 1..Len(ScheduleKeys) |-> [id |-> k, name |-> ScheduleKeys[k]]]

\* the scheduler has been started on an empty collection and the bootstrap
\* is over
InitDay ==
    /\ store = {}
    /\ now = 0
    /\ enabled = TRUE
    /\ isRunning = TRUE
    /\ scheduledJobs = FirstJobs
    /\ armed = Range(FirstJobs)
    /\ bootChecks = 0
    /\ bootTimeouts = 0
    /\ execs = [e \in ExecIds |-> NoExec]
    /\ started = 0
    /\ fetchStats = [totalFetches |-> 0, successfulFetches |-> 0,
                     failedFetches |-> 0, articlesSaved |-> 0]
    /\ lastFetchTimes = [s \in SlotNames |-> <<>>]
    /\ upstreamCalls = [newsData |-> 0, newsApi |-> 0]
    /\ pages = 0
    /\ reply = NoReply
    /\ lastDone = NoneDone
    /\ normOut = <<>>
    /\ connection = NotConnected

NextDay ==
    \/ \E j \in armed : CronFire(j)
    \/ \E e \in ExecIds : FetchNewsData(e)
    \/ \E e \in ExecIds : FetchNewsApiOrg(e)
    \/ \E e \in ExecIds : Finish(e)

SpecDay == InitDay /\ [][NextDay]_vars

\* every timer of the day has fired and every execution has ended
DayOver ==
    /\ FiredToday = Len(ScheduleKeys)
    /\ \A e \in ExecIds : Idle(e)

\* the parameter sets configured for a provider over all slots
ParameterSets(provider) ==
    UNION {{<<name, k>> : k \in 1..Len(FETCH_SCHEDULE[name][provider])} :
              name \in SlotNames}

\* C17: getEstimatedDailyCredits reports for each provider the number of
\* parameter sets configured over all slots and what the daily limit leaves;
\* a day in which every timer fires once issues exactly that many calls to
\* each provider, and at no time more than the provider's daily limit of
\* 200 and 100.
C17_CreditBudget ==
    LET c == getEstimatedDailyCredits
    IN  /\ c.newsDataIo.estimated = Cardinality(ParameterSets("newsDataConfig"))
        /\ c.newsApiOrg.estimated = Cardinality(ParameterSets("newsApiConfig"))
        /\ c.newsDataIo.remaining = 200 - c.newsDataIo.estimated
        /\ c.newsApiOrg.remaining = 100 - c.newsApiOrg.estimated
        /\ upstreamCalls.newsData <= c.newsDataIo.estimated
        /\ upstreamCalls.newsApi <= c.newsApiOrg.estimated
        /\ c.newsDataIo.estimated <= 200
        /\ c.newsApiOrg.estimated <= 100
        /\ DayOver => /\ upstreamCalls.newsData = c.newsDataIo.estimated
                      /\ upstreamCalls.newsApi = c.newsApiOrg.estimated

\* the day is over and both providers have been called
C17_DayDone ==
    /\ DayOver
    /\ upstreamCalls.newsData > 0
    /\ upstreamCalls.newsApi > 0
    /\ store # {}

-----------------------------------------------------------------------------
(* The manual trigger of the controller and what follows it (SpecTrigger) *)

\* request bodies of SpecTrigger: a slot, a name that is no slot, no name
TriggerBodies == {"NIGHT", "LUNCH", Undefined}

NextTrigger ==
    \/ \E schedule \in TriggerBodies : SchedulerController_triggerManualFetch(schedule)
    \/ \E e \in ExecIds : FetchNewsData(e)
    \/ \E e \in ExecIds : FetchNewsApiOrg(e)
    \/ \E e \in ExecIds : Finish(e)
    \/ getStatus

SpecTrigger == Init /\ [][NextTrigger]_vars

\* the acknowledgment of a trigger for this name
Acknowledgment(schedule) ==
    [op |-> "trigger", code |-> 202, schedule |-> schedule, status |-> "triggered"]

\* C24: the step in which a trigger for a valid slot name begins an
\* execution answers 202 "triggered" while that execution is unfinished and
\* the counters are untouched; the end of an execution, successful or
\* failed, changes no answer given; a status query answers with the counters
\* and lastFetchTimes of its instant.
C24_FireAndForget ==
    [][/\ started' = started + 1
          => \E e \in ExecIds :
               /\ Idle(e)
               /\ execs'[e].pc # "idle"
               /\ reply' = Acknowledgment(execs'[e].slot)
               /\ fetchStats' = fetchStats
               /\ lastFetchTimes' = lastFetchTimes
       /\ \A e \in ExecIds : Finishes(e) => reply' = reply
       /\ (reply' # reply /\ reply'.op = "status")
          => /\ reply'.stats = fetchStats
             /\ reply'.lastFetchTimes = lastFetchTimes
      ]_vars

\* the execution a trigger began has failed; the trigger's answer stands
C24_FailedAfterAck ==
    /\ reply = Acknowledgment("NIGHT")
    /\ lastDone.outcome = "failed"
    /\ fetchStats.failedFetches = 1
    /\ \A e \in ExecIds : Idle(e)

-----------------------------------------------------------------------------
(* DatabaseConnection.connect (db/connection.js) and its callers (SpecConnect) *)

\* a caller invokes connect() from a task of its own (a request, a startup
\* script): tasks run when no microtask is left
connect ==
    /\ connection.microtasks = <<>>
    /\ HasRoom(connection)
    /\ connection' = Enter(connection, NextCall(connection))
    /\ UNCHANGED <<store, now, Control, execs, started, fetchStats,
                   lastFetchTimes, upstreamCalls, pages, reply, lastDone,
                   normOut>>

\* the continuations registered on a promise, in the order of registration
Resumptions(cs) == [k \in 1..Len(cs) |-> [kind |-> "resume", call |-> cs[k]]]

\* the driver ends attempt a: mongoose sets readyState and settles the
\* promise, which queues the continuations awaiting it
mongooseSettles(a, ok) ==
    /\ connection.microtasks = <<>>
    /\ a \in 1..Len(connection.attempts)
    /\ connection.attempts[a] = "pending"
    /\ connection' =
         [connection EXCEPT !.attempts[a] = IF ok THEN "resolved" ELSE "rejected",
                            !.readyState  = IF ok THEN 1 ELSE 0,
                            !.microtasks  = Resumptions(connection.waiters[a])]
    /\ UNCHANGED <<store, now, Control, execs, started, fetchStats,
                   lastFetchTimes, upstreamCalls, pages, reply, lastDone,
                   normOut>>

\* connect() of call c after its await: the owner of the attempt clears the
\* lock; a call that waited returns on success; the catch block clears the
\* lock and rethrows for both
Resume(conn, c, retry) ==
    LET ok     == conn.attempts[conn.calls[c].on] = "resolved"
        owner  == conn.calls[c].pc = "connecting"
        rest   == Tail(conn.microtasks)
        popped == [conn EXCEPT !.microtasks = rest]
    IN  IF ok
        THEN [popped EXCEPT !.calls[c].pc = "returned",
                            !.connectingPromise =
                                IF owner THEN NoPromise ELSE @]
        ELSE [popped EXCEPT !.calls[c].pc = "threw",
                            !.connectingPromise = NoPromise,
                            !.microtasks =
                                IF retry THEN Append(rest, [kind |-> "retry", call |-> c])
                                ELSE rest]

\* the microtask at the head of the queue runs: a continuation of connect(),
\* or the reaction of a caller whose connect() was rejected and that calls
\* connect() again
RunMicrotask ==
    /\ connection.microtasks # <<>>
    /\ LET task == Head(connection.microtasks)
       IN  IF task.kind = "resume"
           THEN \E retry \in BOOLEAN :
                    connection' = Resume(connection, task.call, retry)
           ELSE LET popped == [connection EXCEPT !.microtasks = Tail(@)]
                IN  connection' = IF HasRoom(popped)
                                  THEN Enter(popped, NextCall(popped))
                                  ELSE popped
    /\ UNCHANGED <<store, now, Control, execs, started, fetchStats,
                   lastFetchTimes, upstreamCalls, pages, reply, lastDone,
                   normOut>>

InitConnect == Init

NextConnect ==
    \/ connect
    \/ \E a \in 1..MaxAttempts, ok \in BOOLEAN : mongooseSettles(a, ok)
    \/ RunMicrotask

SpecConnect == InitConnect /\ [][NextConnect]_vars

\* the mongoose.connect calls that have not settled
InFlight(conn) == {a \in 1..Len(conn.attempts) : conn.attempts[a] = "pending"}

\* the calls that have entered connect() in this step
Entered == {c \in CallIds : connection.calls[c].pc = "idle"
                            /\ connection'.calls[c].pc # "idle"}

\* C27: at most one mongoose.connect is in flight at any time; a connect()
\* call that arrives while an attempt is in flight opens none and waits for
\* that attempt; a call on a connected instance opens none and returns.
C27_ConnectionLock ==
    /\ [](Cardinality(InFlight(connection)) <= 1)
    /\ [][\A c \in Entered :
             /\ InFlight(connection) # {}
                  => /\ connection'.attempts = connection.attempts
                     /\ connection'.calls[c].pc = "waiting"
                     /\ connection'.calls[c].on \in InFlight(connection)
             /\ connection.readyState = 1
                  => /\ connection'.attempts = connection.attempts
                     /\ connection'.calls[c].pc = "returned"]_vars

\* two calls wait for the attempt a third call opened, after an attempt
\* that failed
C27_TwoWaiting ==
    /\ Len(connection.attempts) = 2
    /\ connection.attempts[1] = "rejected"
    /\ connection.attempts[2] = "pending"
    /\ Cardinality({c \in CallIds : connection.calls[c].pc = "waiting"
                                     /\ connection.calls[c].on = 2}) = 2

-----------------------------------------------------------------------------
(* A started scheduler whose executions fail (SpecRun) *)

\* start() has armed the five timers on an empty collection and the
\* bootstrap check has scheduled its fetch
InitRun ==
    /\ store = {}
    /\ now = 0
    /\ enabled = TRUE
    /\ isRunning = TRUE
    /\ scheduledJobs = FirstJobs
    /\ armed = Range(FirstJobs)
    /\ bootChecks = 0
    /\ bootTimeouts = 1
    /\ execs = [e \in ExecIds |-> NoExec]
    /\ started = 0
    /\ fetchStats = [totalFetches |-> 0, successfulFetches |-> 0,
                     failedFetches |-> 0, articlesSaved |-> 0]
    /\ lastFetchTimes = [s \in SlotNames |-> <<>>]
    /\ upstreamCalls = [newsData |-> 0, newsApi |-> 0]
    /\ pages = 0
    /\ reply = NoReply
    /\ lastDone = NoneDone
    /\ normOut = <<>>
    /\ connection = NotConnected

\* the three callers of executeScheduledFetch: the bootstrap timeout, the
\* cron callbacks that come due, and the manual trigger
NextRun ==
    \/ BootFire
    \/ \E j \in armed : j.name \in LiveNames /\ TimerFire(j)
    \/ \E name \in LiveNames : triggerManualFetch(name)
    \/ \E e \in ExecIds : FetchNewsData(e)
    \/ \E e \in ExecIds : FetchNewsApiOrg(e)
    \/ \E e \in ExecIds : Finish(e)

SpecRun == InitRun /\ [][NextRun]_vars

\* C25: executeScheduledFetch never passes an exception or a rejected
\* promise to its caller, whatever the providers and the store do; the step
\* that ends an execution leaves the scheduler running with every timer of
\* start() armed, also when the execution failed.
C25_NothingPropagates ==
    /\ [](~lastDone.rejected)
    /\ [](isRunning /\ armed = Range(FirstJobs) /\ scheduledJobs = FirstJobs)
    /\ [][\A e \in ExecIds :
             Finishes(e) => /\ ~lastDone'.rejected
                            /\ lastDone'.origin = execs[e].origin
                            /\ isRunning' = isRunning
                            /\ armed' = armed
                            /\ scheduledJobs' = scheduledJobs]_vars

\* an execution begun by a timer has failed on a store that was down after
\* every call to provider A had failed
C25_TimerRunFailed ==
    /\ lastDone.outcome = "failed"
    /\ lastDone.origin = "timer"
    /\ lastDone.storeDown
    /\ lastDone.aAllFailed
    /\ isRunning
    /\ Cardinality(armed) = Len(ScheduleKeys)

-----------------------------------------------------------------------------
(* The normalizers on their own (SpecNorm) *)

\* raw articles of provider A (native id, link) and of provider B (url)
NativeIds == {"n1", "n2", "", Undefined}
Links == {"u1", "u2"}
Urls == {"u1", "u2", "data_u1"}

RawInputs ==
    {[provider |-> "A", raw |-> RawA(id, link, "english")] :
        id \in NativeIds, link \in Links}
    \cup {[provider |-> "B", raw |-> RawB(url, "T", "d1")] : url \in Urls}

\* the normalizer of the provider applied to a raw article
KeyOf(x) ==
    IF x.provider = "A"
    THEN [provider |-> "A", id |-> x.raw.article_id, url |-> x.raw.link,
          articleId |-> normalizeNewsDataArticle(x.raw).articleId]
    ELSE [provider |-> "B", id |-> Undefined, url |-> x.raw.url,
          articleId |-> normalizeNewsApiOrgArticle(x.raw, <<>>, <<>>).articleId]

Normalize(x, y) ==
    /\ normOut' = <<KeyOf(x), KeyOf(y)>>
    /\ UNCHANGED <<store, now, Control, execs, started, fetchStats,
                   lastFetchTimes, upstreamCalls, pages, reply, lastDone,
                   connection>>

NextNorm == \E x \in RawInputs, y \in RawInputs : Normalize(x, y)

SpecNorm == Init /\ [][NextNorm]_vars

-----------------------------------------------------------------------------
(* UnifiedNewsService: the read operations (SpecRead)                       *)
(* Instants are minutes here; an answer lists the articleIds of its         *)
(* documents in order.                                                      *)

cacheExpiryMinutes == 30
NewsFromDBLimit == 50
TrendingLimit == 20
SearchLimit == 20
DayMinutes == 1440

NoFilters == [category |-> Undefined, country |-> Undefined, language |-> Undefined]

ReadFilters == {NoFilters,
                [NoFilters EXCEPT !.category = "business"],
                [NoFilters EXCEPT !.country = "in"],
                [NoFilters EXCEPT !.language = "en"]}

Has(sq, v) == \E k \in 1..Len(sq) : sq[k] = v

\* the query built from the filters: a scalar matches an array field that
\* contains it
MatchesQuery(d, filters) ==
    /\ Truthy(filters.category) => Has(d.category, filters.category)
    /\ Truthy(filters.country) => Has(d.country, filters.country)
    /\ Truthy(filters.language) => d.language = filters.language

Min(a, b) == IF a <= b THEN a ELSE b

\* .skip(skip).limit(limit)
Slice(sq, skip, limit) == SubSeq(sq, skip + 1, Min(skip + limit, Len(sq)))

IdsOf(sq) == [k \in 1..Len(sq) |-> sq[k].articleId]

\* .sort({ publishedAt: -1 }): the orders the sort can deliver docs in;
\* documents with equal keys come in any order
RECURSIVE SortedByPublishedAt(_)
SortedByPublishedAt(docs) ==
    IF docs = {}
    THEN {<<>>}
    ELSE LET newest == {d \in docs : \A x \in docs :
                           d.publishedAt.time >= x.publishedAt.time}
         IN  UNION {{<<d>> \o rest : rest \in SortedByPublishedAt(docs \ {d})} :
                    d \in newest}

\* .sort({ publishedAt: -1, fetchedAt: -1 })
RECURSIVE SortedTrending(_)
SortedTrending(docs) ==
    IF docs = {}
    THEN {<<>>}
    ELSE LET first == {d \in docs : \A x \in docs :
                          \/ d.publishedAt.time > x.publishedAt.time
                          \/ /\ d.publishedAt.time = x.publishedAt.time
                             /\ d.fetchedAt >= x.fetchedAt}
         IN  UNION {{<<d>> \o rest : rest \in SortedTrending(docs \ {d})} :
                    d \in first}

ReadOnly == UNCHANGED <<store, now, Control, execs, started, fetchStats,
                        lastFetchTimes, upstreamCalls, pages, lastDone, normOut, connection>>

\* a slip: $gt in place of $gte
HasFreshCacheStrict(filters) ==
    \E d \in store : d.fetchedAt > now - cacheExpiryMinutes /\ MatchesQuery(d, filters)

\* UnifiedNewsService.hasFreshCache: the count query and `count > 0`
hasFreshCache(filters) ==
    \E d \in store : d.fetchedAt >= now - cacheExpiryMinutes /\ MatchesQuery(d, filters)

\* a slip: the read refreshes the cache from both providers when it is stale
GetLatestNewsThroughCache(filters) ==
    /\ \E sq \in SortedByPublishedAt({d \in store : MatchesQuery(d, filters)}) :
         reply' = [op |-> "getLatestNews", totalResults |-> Len(sq),
                   articles |-> IdsOf(Slice(sq, 0, NewsFromDBLimit))]
    /\ upstreamCalls' = IF hasFreshCache(filters) THEN upstreamCalls
                        ELSE [newsData |-> upstreamCalls.newsData + 1,
                              newsApi  |-> upstreamCalls.newsApi + 1]
    /\ UNCHANGED <<store, now, Control, execs, started, fetchStats,
                   lastFetchTimes, pages, lastDone, normOut, connection>>

\* UnifiedNewsService.getLatestNews -> getNewsFromDB(filters), which
\* getNewsByCategory and the by-country controller go through as well
UnifiedGetLatestNews(filters) ==
    /\ \E sq \in SortedByPublishedAt({d \in store : MatchesQuery(d, filters)}) :
         reply' = [op |-> "getLatestNews", totalResults |-> Len(sq),
                   articles |-> IdsOf(Slice(sq, 0, NewsFromDBLimit))]
    /\ ReadOnly

\* UnifiedNewsService.searchNews -> News.searchArticles(query, 100): the
\* number 100 stands where the options object is expected, so the limit is
\* the default.  A document matches when the term is its title.
searchNews(query) ==
    /\ \E sq \in SortedByPublishedAt({d \in store : d.title = query /\ ~d.isDeleted}) :
         LET found == Slice(sq, 0, SearchLimit)
         IN  reply' = [op |-> "searchNews", totalResults |-> Len(found),
                       articles |-> IdsOf(found)]
    /\ ReadOnly

\* UnifiedNewsService.getTrendingNews
getTrendingNews ==
    /\ \E sq \in SortedTrending(store) :
         LET found == Slice(sq, 0, TrendingLimit)
         IN  reply' = [op |-> "getTrendingNews", totalResults |-> Len(found),
                       articles |-> IdsOf(found)]
    /\ ReadOnly

\* UnifiedNewsService.getSources: one group per source.id; the raw articles
\* of the model name no source, so every document is of the source with id
\* null and name "Unknown"
getSources(filters) ==
    /\ LET matched == {d \in store : MatchesQuery(d, filters)}
       IN  reply' = [op |-> "getSources",
                     totalResults |-> IF matched = {} THEN 0 ELSE 1,
                     articleCount |-> Cardinality(matched)]
    /\ ReadOnly

\* UnifiedNewsService.getStats
getStats ==
    /\ reply' = [op |-> "getStats",
                 total |-> Cardinality(store),
                 newsDataIo |-> Cardinality({d \in store : d.sourceApi = "newsdata.io"}),
                 newsApiOrg |-> Cardinality({d \in store : d.sourceApi = "newsapi.org"}),
                 recentArticles |->
                     Cardinality({d \in store : d.fetchedAt >= now - DayMinutes})]
    /\ ReadOnly

FindLimit == 20

\* News.findRecent(hours = 24): the store query of the recent documents
findRecent ==
    /\ \E sq \in SortedByPublishedAt({d \in store :
                    /\ d.publishedAt.time >= now - DayMinutes
                    /\ ~d.isDeleted}) :
         reply' = [op |-> "findRecent", articles |-> IdsOf(Slice(sq, 0, FindLimit))]
    /\ ReadOnly

\* News.findByCategory(categories): category: { $in: categoryArray }
findByCategory(category) ==
    /\ \E sq \in SortedByPublishedAt({d \in store :
                    Has(d.category, category) /\ ~d.isDeleted}) :
         reply' = [op |-> "findByCategory",
                   articles |-> IdsOf(Slice(sq, 0, FindLimit))]
    /\ ReadOnly

\* News.findByCountry(countries): country: { $in: countryArray }
findByCountry(country) ==
    /\ \E sq \in SortedByPublishedAt({d \in store :
                    Has(d.country, country) /\ ~d.isDeleted}) :
         reply' = [op |-> "findByCountry",
                   articles |-> IdsOf(Slice(sq, 0, FindLimit))]
    /\ ReadOnly

\* newsSchema.methods.softDelete, applied by housekeeping outside the
\* pipeline
SoftDeleted(d) == [d EXCEPT !.isDeleted = TRUE]

\* documents earlier ingestion left in the collection, one of them
\* soft-deleted since
StorePool ==
    {NewDoc(normalizeNewsApiOrgArticle(b1, <<"business">>, <<"in">>), 0),
     NewDoc(normalizeNewsApiOrgArticle(b2, <<"technology">>, <<"us">>), 1),
     NewDoc(normalizeNewsDataArticle(a1), 1),
     SoftDeleted(NewDoc(normalizeNewsApiOrgArticle(b3, <<"business">>, <<"in">>), 0))}

\* the instants at which the reads happen: within the cache expiry of the
\* stored documents, and past it
ReadInstants == {1, 45}

InitRead ==
    /\ store \in SUBSET StorePool
    /\ now \in ReadInstants
    /\ enabled = TRUE
    /\ Constructed

NextRead ==
    \/ \E filters \in ReadFilters : UnifiedGetLatestNews(filters)
    \/ \E query \in {"T", "X"} : searchNews(query)
    \/ getTrendingNews
    \/ \E filters \in ReadFilters : getSources(filters)
    \/ getStats
    \/ findRecent
    \/ findByCategory("business")
    \/ findByCountry("in")
    \/ \E filters \in RefreshFilters : refreshCache(filters)

SpecRead == InitRead /\ [][NextRead]_vars

ReadOps == {"getLatestNews", "searchNews", "getTrendingNews", "getSources",
            "getStats"}

ListOps == {"getLatestNews", "searchNews", "getTrendingNews", "findRecent",
            "findByCategory", "findByCountry"}

\* C11: the articles a read operation answers with include no soft-deleted
\* record.
C11_NoDeletedReturned ==
    reply.op \in ListOps =>
        \A k \in 1..Len(reply.articles) :
            \A d \in store : d.articleId = reply.articles[k] => ~d.isDeleted

-----------------------------------------------------------------------------
(* UnifiedNewsService.hasFreshCache on its own (SpecFresh) *)

\* a call of hasFreshCache(filters); answered is whether News.countDocuments
\* answered, the catch returns false when it threw
CheckCache(filters) ==
    /\ \E answered \in BOOLEAN :
         reply' = [op |-> "hasFreshCache", filters |-> filters,
                   answered |-> answered,
                   fresh |-> IF answered THEN hasFreshCache(filters) ELSE FALSE]
    /\ ReadOnly

\* the instants of the calls: 10, 30, 31 and 40 minutes after the first
\* document of StorePool was fetched
FreshInstants == {10, 30, 31, 40}

InitFresh ==
    /\ store \in SUBSET StorePool
    /\ now \in FreshInstants
    /\ enabled = TRUE
    /\ Constructed

NextFresh == \E filters \in ReadFilters : CheckCache(filters)

SpecFresh == InitFresh /\ [][NextFresh]_vars

\* the age of document d in minutes
Age(d) == now - d.fetchedAt

-----------------------------------------------------------------------------
(* Ingestion and reads over a collection with soft-deleted documents *)
(* (SpecKeep)                                                        *)

\* documents earlier runs left in the collection: one that housekeeping
\* soft-deleted and that provider B still delivers, and a live one
KeepPool ==
    {SoftDeleted(NewDoc(normalizeNewsApiOrgArticle(b1, <<>>, <<"in">>), 0)),
     NewDoc(normalizeNewsApiOrgArticle(b2, <<>>, <<"us">>), 0)}

InitKeep ==
    /\ store \in SUBSET KeepPool
    /\ now = 0
    /\ enabled = TRUE
    /\ Constructed

NextKeep ==
    \/ \E name \in LiveNames : triggerManualFetch(name)
    \/ \E e \in ExecIds : FetchNewsData(e)
    \/ \E e \in ExecIds : FetchNewsApiOrg(e)
    \/ \E e \in ExecIds : Finish(e)
    \/ \E filters \in RefreshFilters : refreshCache(filters)
    \/ UnifiedGetLatestNews(NoFilters)
    \/ getTrendingNews

SpecKeep == InitKeep /\ [][NextKeep]_vars

\* C20: no step removes an articleId from the store or changes the
\* isDeleted flag of a stored record; a soft-deleted record that is
\* ingested again stays soft-deleted.
C20_NothingRemoved ==
    [][/\ Ids(store) \subseteq Ids(store')
       /\ \A d \in store : \A x \in store' :
            d.articleId = x.articleId => x.isDeleted = d.isDeleted
      ]_vars

\* a soft-deleted record has been ingested again
C20_DeletedReingested ==
    \E d \in store : d.isDeleted /\ d.updatedAt > d.fetchedAt

-----------------------------------------------------------------------------
(* News.searchArticles and the news_text_search index (SpecSearch) *)

\* weights of the news_text_search index
TextWeights == [title |-> 10, description |-> 5, content |-> 1]

TextFields == {"title", "description", "content"}

\* a document of the collection as the text search sees it: the words of its
\* three indexed fields, stop words left out
TextDoc(id, title, description, content, time) ==
    [articleId |-> id, title |-> title, description |-> description,
     content |-> content, publishedAt |-> [valid |-> TRUE, time |-> time],
     isDeleted |-> FALSE, duplicate |-> FALSE]

\* how often the term occurs among the words
Occurrences(words, term) == Cardinality({k \in 1..Len(words) : words[k] = term})

RECURSIVE Pow2(_)
Pow2(n) == IF n = 0 THEN 1 ELSE 2 * Pow2(n - 1)

\* fractions <<numerator, denominator>>
Plus(p, q) == <<p[1] * q[2] + q[1] * p[2], p[2] * q[2]>>

Below(p, q) == p[1] * q[2] < q[1] * p[2]

\* The score of one field for the term.  The server's text index (versions
\* 2 and 3) gives the c occurrences among n words the frequency
\* 1 + 1/2 + ... + 1/2^(c-1) and the coefficient 1/2 + c/(2n), times the
\* weight; the MongoDB manual describes the score as number of matches times
\* weight.
FieldScore(words, term, weight, scoring) ==
    LET c == Occurrences(words, term)
        n == Len(words)
    IN  IF c = 0 THEN <<0, 1>>
        ELSE IF scoring = "manual" THEN <<weight * c, 1>>
        ELSE <<weight * (Pow2(c) - 1) * (n + c), Pow2(c) * n>>

\* { $meta: "textScore" }: the sum over the indexed fields
textScore(d, term, scoring) ==
    Plus(FieldScore(d.title, term, TextWeights.title, scoring),
         Plus(FieldScore(d.description, term, TextWeights.description, scoring),
              FieldScore(d.content, term, TextWeights.content, scoring)))

Scorings == {"server", "manual"}

\* $text: { $search: term }: the term is a word of an indexed field
TextMatches(d, term) == \E f \in TextFields : Occurrences(d[f], term) > 0

\* d comes before x in .sort({ score: { $meta: "textScore" }, publishedAt: -1 })
\* or ties with it
NotAfter(d, x, term, scoring) ==
    \/ Below(textScore(x, term, scoring), textScore(d, term, scoring))
    \/ /\ ~Below(textScore(d, term, scoring), textScore(x, term, scoring))
       /\ d.publishedAt.time >= x.publishedAt.time

\* the orders the sort can deliver docs in
RECURSIVE SortedByScore(_, _, _)
SortedByScore(docs, term, scoring) ==
    IF docs = {} THEN {<<>>}
    ELSE LET first == {d \in docs : \A x \in docs : NotAfter(d, x, term, scoring)}
         IN  UNION {{<<d>> \o rest :
                       rest \in SortedByScore(docs \ {d}, term, scoring)} :
                    d \in first}

\* News.searchArticles(searchQuery, options) with the default options
searchArticles(searchQuery) ==
    /\ \E scoring \in Scorings :
         \E sq \in SortedByScore({d \in store : /\ TextMatches(d, searchQuery)
                                                /\ ~d.isDeleted
                                                /\ ~d.duplicate},
                                  searchQuery, scoring) :
             reply' = [op |-> "searchArticles", term |-> searchQuery,
                       scoring |-> scoring,
                       articles |-> IdsOf(Slice(sq, 0, SearchLimit))]
    /\ ReadOnly

\* stored documents: the term X once in a two-word title, alone in the title,
\* three times in the description, once in a longer description, twice over,
\* in the content only, nowhere, and in the title of a soft-deleted document
TextPool ==
    {TextDoc("s1", <<"X", "a">>, <<>>, <<>>, 1),
     TextDoc("s2", <<"X">>, <<"b">>, <<>>, 0),
     TextDoc("s3", <<"a">>, <<"X", "X", "X">>, <<>>, 2),
     TextDoc("s4", <<"a">>, <<"X", "b">>, <<>>, 3),
     TextDoc("s5", <<"a">>, <<"X", "b">>, <<>>, 1),
     TextDoc("s6", <<"b">>, <<>>, <<"X">>, 3),
     TextDoc("s7", <<"a">>, <<"b">>, <<>>, 2),
     SoftDeleted(TextDoc("s8", <<"X">>, <<>>, <<>>, 3))}

SearchTerms == {"X", "a"}

InitSearch ==
    /\ store \in SUBSET TextPool
    /\ now = 1
    /\ enabled = TRUE
    /\ Constructed

NextSearch == \E term \in SearchTerms : searchArticles(term)

SpecSearch == InitSearch /\ [][NextSearch]_vars

\* the stored document with this articleId
DocOf(id) == CHOOSE d \in store : d.articleId = id

InTitle(d, term) == Occurrences(d.title, term) > 0

\* C22: in the answer of a full-text search no record with the term in its
\* title comes after a record without it there, whatever their publishedAt,
\* and of two records of equal score the one published later comes first.
C22_TitleFirst ==
    reply.op = "searchArticles" =>
        \A i \in 1..Len(reply.articles) : \A j \in 1..Len(reply.articles) :
            i < j =>
              LET d == DocOf(reply.articles[i])
                  x == DocOf(reply.articles[j])
              IN  /\ InTitle(x, reply.term) => InTitle(d, reply.term)
                  /\ textScore(d, reply.term, reply.scoring)
                        = textScore(x, reply.term, reply.scoring)
                     => d.publishedAt.time >= x.publishedAt.time

-----------------------------------------------------------------------------
(* UnifiedNewsController: the paginated reads (SpecPage) *)

MaxPageNo == 3
ManyCount == 51
DefaultPage == 1
DefaultLimit == 50
DefaultItemsPerPage == 10

\* a JS number handed over where an object may be expected
Num(n) == [type |-> "number", value |-> n]

NoValue == [type |-> "undefined"]

\* v.name: a number has no such property
Prop(v, name) ==
    IF v.type = "object" /\ name \in DOMAIN v.fields THEN v.fields[name] ELSE NoValue

\* v || d
OrDefault(v, d) == IF v.type = "number" /\ v.value # 0 THEN v.value ELSE d

\* parseInt(req.query.page) || 1; 0 stands for an absent parameter
ParsePage(v) == IF v = 0 THEN DefaultPage ELSE v

\* parseInt(req.query.limit) || 50
ParseLimit(v) == IF v = 0 THEN DefaultLimit ELSE v

\* array.slice(start, end)
JsSlice(sq, from, to) ==
    IF from >= Len(sq) THEN <<>> ELSE SubSeq(sq, from + 1, Min(to, Len(sq)))

\* responseHandler.sendPaginatedResponse(res, data, pagination, message)
sendPaginatedResponse(data, pagination, message) ==
    [records      |-> data,
     currentPage  |-> OrDefault(Prop(pagination, "currentPage"), 1),
     totalPages   |-> OrDefault(Prop(pagination, "totalPages"), 1),
     totalItems   |-> OrDefault(Prop(pagination, "totalItems"), 0),
     itemsPerPage |-> OrDefault(Prop(pagination, "itemsPerPage"), DefaultItemsPerPage)]

\* responseHandler.sendSuccessResponse(res, data, message) with the
\* service's answer as data
sendSuccessResponse(data) ==
    [records      |-> data.articles,
     currentPage  |-> 1,
     totalPages   |-> 1,
     totalItems   |-> data.totalResults,
     itemsPerPage |-> DefaultItemsPerPage]

\* what the controller answers from the service's data: the call
\* sendPaginatedResponse(res, slice, page, limit, data.totalResults, message)
\* binds page to `pagination` and limit to `message`
Paginate(data, page, limit) ==
    IF Len(data.articles) > 0
    THEN sendPaginatedResponse(
             JsSlice(data.articles, (page - 1) * limit, page * limit),
             Num(page), Num(limit))
    ELSE sendSuccessResponse(data)

\* UnifiedNewsController.getLatestNews / getNewsByCategory /
\* getNewsByCountry: all three go through
\* unifiedNewsService.getLatestNews(filters)
ControllerGetLatestNews(filters, pageParam, limitParam) ==
    /\ \E sq \in SortedByPublishedAt({d \in store : MatchesQuery(d, filters)}) :
         LET data == [totalResults |-> Len(sq),
                      articles |-> IdsOf(Slice(sq, 0, NewsFromDBLimit))]
             page  == ParsePage(pageParam)
             limit == ParseLimit(limitParam)
         IN  reply' = [op |-> "GET latest", filters |-> filters, query |-> "",
                       page |-> page, limit |-> limit,
                       body |-> Paginate(data, page, limit)]
    /\ ReadOnly

\* UnifiedNewsController.searchNews
ControllerSearchNews(query, pageParam, limitParam) ==
    /\ \E sq \in SortedByPublishedAt({d \in store : d.title = query /\ ~d.isDeleted}) :
         LET found == Slice(sq, 0, SearchLimit)
             data  == [totalResults |-> Len(found), articles |-> IdsOf(found)]
             page  == ParsePage(pageParam)
             limit == ParseLimit(limitParam)
         IN  reply' = [op |-> "GET search", filters |-> NoFilters, query |-> query,
                       page |-> page, limit |-> limit,
                       body |-> Paginate(data, page, limit)]
    /\ ReadOnly

\* a collection of many documents, all of one category and country, with
\* pairwise different publication instants
ManyDocs ==
    {[NewDoc(normalizeNewsApiOrgArticle(b1, <<"business">>, <<"in">>), 0)
        EXCEPT !.articleId = "newsapi_" \o ToString(k),
               !.url = ToString(k),
               !.publishedAt = [valid |-> TRUE, time |-> k]] : k \in 1..ManyCount}

PageParams == 0..MaxPageNo

LimitParams == {0, 1, 20}

PageFilters == {NoFilters, [NoFilters EXCEPT !.country = "in"]}

InitPage ==
    /\ store \in (SUBSET StorePool) \cup {ManyDocs}
    /\ now \in ReadInstants
    /\ enabled = TRUE
    /\ Constructed

NextPage ==
    \/ \E filters \in PageFilters, p \in PageParams, l \in LimitParams :
          ControllerGetLatestNews(filters, p, l)
    \/ \E query \in {"T", "X"}, p \in PageParams, l \in LimitParams :
          ControllerSearchNews(query, p, l)

SpecPage == InitPage /\ [][NextPage]_vars

\* the records a paginated request matches
Matching(r) ==
    IF r.op = "GET search"
    THEN {d \in store : d.title = r.query /\ ~d.isDeleted}
    ELSE {d \in store : MatchesQuery(d, r.filters)}

\* C12: a paginated read of page p with limit l answers with the matching
\* records at positions (p-1)*l+1 .. p*l of a newest-first ordering of all
\* matching records, and reports as total the number of matching records.
C12_Pagination ==
    reply.op \in {"GET latest", "GET search"} =>
        /\ \E sq \in SortedByPublishedAt(Matching(reply)) :
              reply.body.records = IdsOf(Slice(sq, (reply.page - 1) * reply.limit,
                                               reply.limit))
        /\ reply.body.totalItems = Cardinality(Matching(reply))

-----------------------------------------------------------------------------
(* Properties of the scheduler's control (SpecSched) *)

\* C8: a manual trigger whose slot name is not a configured slot is answered
\* with an error, never with "triggered".
C8_InvalidSlotRejected ==
    (reply.op = "trigger" /\ reply.schedule \notin SlotNames)
        => (reply.code >= 400 /\ reply.status # "triggered")

\* the request { schedule: "LUNCH" } has been answered and nothing runs
C8_InvalidSlotAnswered ==
    /\ reply.op = "trigger"
    /\ reply.schedule = "LUNCH"
    /\ \A e \in ExecIds : Idle(e)

TimersOf(name) == {j \in armed : j.name = name}

\* C9: while the scheduler runs there is exactly one armed timer per
\* configured slot and while it is stopped there is none; a step that leaves
\* it running (start on a running scheduler) or leaves it stopped (stop on a
\* stopped one) changes no timer and starts no bootstrap check.
C9_OneTimerPerSlot ==
    /\ [](/\ isRunning => \A name \in SlotNames : Cardinality(TimersOf(name)) = 1
          /\ ~isRunning => armed = {})
    /\ [][(isRunning = isRunning')
            => /\ armed' = armed
               /\ scheduledJobs' = scheduledJobs
               /\ bootChecks' <= bootChecks]_vars

\* the scheduler runs after having been started, stopped and started again
C9_Restarted == isRunning /\ bootChecks + bootTimeouts = MaxStarts

BootRuns(x) == {e \in ExecIds : x[e].pc # "idle" /\ x[e].origin = "boot"}

C29_QuietAfterStop ==
    [][(~isRunning /\ started' = started + 1)
       => \E e \in ExecIds : /\ Idle(e)
                              /\ execs'[e].pc # "idle"
                              /\ execs'[e].origin = "manual"]_vars

====
